---- MODULE Spec2Model ----
(***************************************************************************)
(* Wallet reputation engine of the DeCap SDK: the scoring formula, the     *)
(* hash-based fallback, the Etherscan activity analyzers, the cached       *)
(* single-address operation fetchWalletReputation and the grouped batch    *)
(* operation batchFetchWalletReputation.                                   *)
(*                                                                         *)
(* Conventions.  A JavaScript string that is hashed or concatenated is a   *)
(* sequence of UTF-16 code units.  Time is counted in whole seconds: a     *)
(* Date.now() value of t*1000 ms is the number t, and a millisecond offset *)
(* that is no multiple of 1000 is kept beside it (see lastActivity).  An   *)
(* optional value is a sequence of length 0 or 1.                          *)
(***************************************************************************)
EXTENDS Integers, Sequences, FiniteSets, TLC

VARIABLES
  now,              \* Date.now(), in seconds
  reputationCache,  \* the module-level Map of reputationUtils: cache key -> entry
  calls,            \* the fetchWalletReputation invocations: call id -> frame
  batch,            \* the frame of the batchFetchWalletReputation invocation
  fnArg,            \* argument of the pure function under evaluation
  fnOut,            \* its results, in call order
  request,          \* the frame of the EtherscanAPI.makeRequest invocation
  currentConfig,    \* config.ts: the module-level configuration object
  configLoaded,     \* config.ts: whether initializeConfig has stored one
  hook,             \* the state, refs and pending fetches of useWalletReputation
  captcha           \* the state, timers and callbacks of useCaptchaLogic

vars == <<now, reputationCache, calls, batch, fnArg, fnOut, request, currentConfig,
         configLoaded, hook, captcha>>

(***************************************************************************)
(* Bounds of the model.                                                    *)
(***************************************************************************)
MaxLen == 7        \* longest hashed address string drawn from the alphabet
MaxFlags == 2      \* longest riskFlags sequence of a drawn WalletData
MaxCalls == 2      \* fetchWalletReputation invocations of one behaviour
MaxTime == 2       \* clock steps of one behaviour
MaxBatchLen == 6   \* longest address list handed to the batch operation

(***************************************************************************)
(* JavaScript arithmetic.                                                  *)
(***************************************************************************)
MinInt32 == -2147483647 - 1

Max(a, b) == IF a >= b THEN a ELSE b
Min(a, b) == IF a <= b THEN a ELSE b

\* The % of JavaScript: the remainder takes the sign of the dividend.
JsRem(a, m) == IF a >= 0 \/ a % m = 0 THEN a % m ELSE (a % m) - m

\* ((hash << 5) - hash) + charCode, then |= 0: the 32-bit wrap of
\* 31 * hash + c, computed on 16-bit halves so that no intermediate value
\* leaves the 32-bit range.
HashStep(hash, c) ==
  LET hi  == (hash \div 65536) % 65536
      lo  == hash % 65536
      lo2 == lo * 31 + c
      hi2 == hi * 31 + (lo2 \div 65536)
      nlo == lo2 % 65536
      nhi == hi2 % 65536
  IN  IF nhi >= 32768 THEN (nhi - 65536) * 65536 + nlo ELSE nhi * 65536 + nlo

RECURSIVE HashFrom(_, _, _)
HashFrom(hash, s, i) ==
  \* (hash \in Int only makes TLC evaluate the accumulator at every step)
  IF hash \in Int /\ i <= Len(s) THEN HashFrom(HashStep(hash, s[i]), s, i + 1) ELSE hash

\* let hash = 0; for (i...) { hash = ((hash << 5) - hash) + s.charCodeAt(i); hash |= 0 }
AddressHash(s) == HashFrom(0, s, 1)

\* Math.abs(hash) % m.  Math.abs(-2^31) is the double 2^31, not an int32.
AbsMod(hash, m) ==
  IF hash = MinInt32 THEN (2 * (1073741824 % m)) % m
  ELSE IF hash < 0 THEN (-hash) % m
  ELSE hash % m

(***************************************************************************)
(* Fallback scorer (customScoring).                                        *)
(***************************************************************************)
generateFallbackScoreNoAbs(walletAddress) ==
  JsRem(AddressHash(walletAddress), 41) + 20

generateFallbackScore(walletAddress) ==
  AbsMod(AddressHash(walletAddress), 41) + 20

\* lastActivity in milliseconds is sec * 1000 - minusMs.
generateFallbackWalletData(address, t) ==
  LET hash == AddressHash(address) IN
  [ address                   |-> address,
    transactionCount          |-> AbsMod(hash, 50) + 1,
    contractInteractions      |-> AbsMod(hash, 10) + 1,
    knownProtocolInteractions |-> <<>>,
    walletAge                 |-> AbsMod(hash, 365) + 30,
    tokenCount                |-> AbsMod(hash, 5) + 1,
    nftCount                  |-> AbsMod(hash, 3),
    riskFlags                 |-> <<>>,
    lastActivity              |-> [sec |-> t, minusMs |-> AbsMod(hash, 86400000) + 3600000] ]

(***************************************************************************)
(* Scoring engine (customScoring).                                         *)
(***************************************************************************)
DEFAULT_WEIGHTS ==
  [ transactionActivity |-> 30, contractInteractions |-> 20, walletAge |-> 20,
    tokenDiversity |-> 10, riskFlags |-> -30 ]

DEFAULT_CONFIG ==
  [ easyThreshold |-> 40, bypassThreshold |-> 70, weights |-> DEFAULT_WEIGHTS ]

RECURSIVE SumSeverity(_, _)
SumSeverity(flags, i) ==
  IF i > Len(flags) THEN 0 ELSE flags[i].severity + SumSeverity(flags, i + 1)

\* The sum calculateScore forms before it normalizes.  walletAge / 30 >= 6 is
\* walletAge >= 180 and walletAge / 30 >= 1 is walletAge >= 30.
RawScore(data, weights) ==
  LET activity == IF data.transactionCount >= 101 THEN 30
                  ELSE IF data.transactionCount >= 11 THEN 15
                  ELSE IF data.transactionCount > 0 THEN 5
                  ELSE 0
      contract == (IF data.contractInteractions > 0 THEN 10 ELSE 0)
                  + (IF Len(data.knownProtocolInteractions) > 0 THEN 10 ELSE 0)
      age      == IF data.walletAge >= 180 THEN 20
                  ELSE IF data.walletAge >= 30 THEN 10
                  ELSE 5
      totalAssets == data.tokenCount + data.nftCount
      diversity == IF totalAssets > 10 THEN 10
                   ELSE IF totalAssets >= 3 THEN 6
                   ELSE IF totalAssets >= 1 THEN 2
                   ELSE 0
  IN  activity + contract + age + diversity + SumSeverity(data.riskFlags, 1)

calculateScoreNoFloor(data, weights) == Min(100, RawScore(data, weights))

calculateScoreNoClamp(data, weights) == RawScore(data, weights)

calculateScoreAgeZeroed(data, weights) ==
  Max(0, Min(100, RawScore(data, weights) - (IF data.walletAge = 0 THEN 5 ELSE 0)))

calculateScoreFlagsCapped(data, weights) ==
  LET flags == SumSeverity(data.riskFlags, 1) IN
  Max(0, Min(100, RawScore(data, weights) - flags + Max(flags, -30)))

calculateScoreDipAbove100(data, weights) ==
  Max(0, Min(100, RawScore(data, weights)
                    - (IF data.transactionCount >= 101 THEN 20 ELSE 0)))

calculateScore(data, weights) == Max(0, Min(100, RawScore(data, weights)))

determineCaptchaMode(score, config) ==
  IF score >= config.bypassThreshold THEN "bypass"
  ELSE IF score >= config.easyThreshold THEN "simple"
  ELSE "advanced"

getTrustLevelAbove(score) ==
  IF score > 70 THEN "high" ELSE IF score > 40 THEN "medium" ELSE "low"

getTrustLevel(score) ==
  IF score >= 70 THEN "high" ELSE IF score >= 40 THEN "medium" ELSE "low"

(***************************************************************************)
(* Configuration management (config.ts).  Of DeCapConfig the model keeps   *)
(* reputation.thresholds; an overrides or updates object is empty ({}) or  *)
(* carries a thresholds object with any subset of the three keys.          *)
(***************************************************************************)
defaultConfig ==
  [ reputation |-> [ thresholds |-> [ bypass |-> 70, simple |-> 40, advanced |-> 0 ] ] ]

\* The deep merge, on the thresholds object: keys of source replace those of
\* target.
mergeConfig(target, source) ==
  [ reputation |->
      [ thresholds |->
          [ key \in DOMAIN target.reputation.thresholds \cup DOMAIN source.thresholds |->
              IF key \in DOMAIN source.thresholds
              THEN source.thresholds[key]
              ELSE target.reputation.thresholds[key] ] ] ]

\* TRUE when validateConfig throws.
validateConfigThrows(config) ==
  LET bypass   == config.reputation.thresholds.bypass
      simple   == config.reputation.thresholds.simple
      advanced == config.reputation.thresholds.advanced
  IN  bypass <= simple \/ simple <= advanced

\* The function has no await: it runs to its end in one step.  A config that
\* fails validation is dropped in the catch block, which returns defaultConfig
\* and leaves currentConfig alone.
initializeConfig(overrides) ==
  /\ IF configLoaded /\ overrides.empty
     THEN UNCHANGED <<currentConfig, configLoaded, hook, captcha>>
     ELSE LET config == mergeConfig(defaultConfig, overrides) IN
          IF validateConfigThrows(config)
          THEN UNCHANGED <<currentConfig, configLoaded, hook, captcha>>
          ELSE currentConfig' = config /\ configLoaded' = TRUE
  /\ UNCHANGED <<now, reputationCache, calls, batch, fnArg, fnOut, request, hook, captcha>>

updateConfig(updates) ==
  /\ currentConfig' = mergeConfig(currentConfig, updates)
  /\ UNCHANGED <<now, reputationCache, calls, batch, fnArg, fnOut, request, configLoaded, hook, captcha>>

getConfig == IF ~configLoaded THEN defaultConfig ELSE currentConfig

ThresholdValues == {-5, 0, 40, 50, 70, 90}

\* {} and every object with a thresholds part.
ConfigObjects ==
  { [ empty |-> TRUE, thresholds |-> <<>> ] } \cup
  { [ empty |-> FALSE, thresholds |-> t ] :
      t \in UNION { [keys -> ThresholdValues] : keys \in SUBSET {"bypass", "simple", "advanced"} } }

(***************************************************************************)
(* Activity analyzer (etherscanApi).  A transaction record carries from,   *)
(* to, value (in whole ETH: parseFloat(value) / 1e18), timeStamp (in       *)
(* seconds: parseInt(timeStamp)) and contractAddress; an absent to or      *)
(* contractAddress is the empty string.                                    *)
(***************************************************************************)
KNOWN_PROTOCOL_ADDRESSES ==
  ("0x7a250d5630b4cf539739df2c5dacb4c659f2488d" :> <<"uniswap", "v2", "router">>) @@
  ("0xe592427a0aece92de3edee1f18e0157c05861564" :> <<"uniswap", "v3", "router">>) @@
  ("0x68b3465833fb72a70ecdf485e0e4c7bd8665fc45" :> <<"uniswap", "v3", "router2">>) @@
  ("0x7d2768de32b0b80b7a3454c06bdac94a69ddc7a9" :> <<"aave", "lending", "pool">>) @@
  ("0x87870bced4dd9d65f45c0b0847c88634c9c0f9f1" :> <<"aave", "v3", "pool">>) @@
  ("0x3d9819210a31b4961b30ef54be2aed79b9c9cd3b" :> <<"compound", "comptroller">>) @@
  ("0xc00e94cb662c3520282e6f5717214004a7f26888" :> <<"compound", "governance">>) @@
  ("0x9f8f72aa9304c8b593d555f12ef6589cc3a579a2" :> <<"maker", "mkr">>) @@
  ("0x6b175474e89094c44da98b954eedeac495271d0f" :> <<"maker", "dai">>) @@
  ("0xd51a44d3fae010294c616388b506acda1bfaae46" :> <<"curve", "tricrypto">>) @@
  ("0xbebc44782c7db0a1a60cb6fe97d0b483032ff1c7" :> <<"curve", "3pool">>) @@
  ("0x57f1887a8bf19b14fc0df6fd9b2acc9af147ea85" :> <<"ens", "registrar">>) @@
  ("0x314159265dd8dbb310642f98f50c066173c1259b" :> <<"ens", "registry">>) @@
  ("0x12d66f87a04a9e220743712ce6d9bb1b5616b8fc" :> <<"tornado", "cash", "0.1", "eth">>) @@
  ("0x47ce0c6ed5b0ce3d3a51fdb1c52dc66a7c3c2936" :> <<"tornado", "cash", "1", "eth">>) @@
  ("0x910cbd523d972eb0a6f4cae4618ad62622b39dbf" :> <<"tornado", "cash", "10", "eth">>) @@
  ("0xa160cdab225685da1d56aa342ad8841c3b53f291" :> <<"tornado", "cash", "100", "eth">>)

\* A variant that finds 'tornado_cash' in no tag.
IncludesTornadoCashNever(protocol) == FALSE

\* protocol.includes('tornado_cash') on a tag kept as its '_'-separated parts.
IncludesTornadoCash(protocol) ==
  \E i \in 1..(Len(protocol) - 1) : protocol[i] = "tornado" /\ protocol[i + 1] = "cash"

\* A variant whose window also takes in a transaction exactly 24 hours old.
RISK_PATTERNS_WindowInclusive ==
  [ TORNADO_CASH |-> { addr \in DOMAIN KNOWN_PROTOCOL_ADDRESSES :
                         IncludesTornadoCash(KNOWN_PROTOCOL_ADDRESSES[addr]) },
    LARGE_TRANSACTION_THRESHOLD |-> 10,
    SUSPICIOUS_ACTIVITY_WINDOW |-> 24 * 60 * 60 + 1 ]

RISK_PATTERNS ==
  [ TORNADO_CASH |-> { addr \in DOMAIN KNOWN_PROTOCOL_ADDRESSES :
                         IncludesTornadoCash(KNOWN_PROTOCOL_ADDRESSES[addr]) },
    LARGE_TRANSACTION_THRESHOLD |-> 10,
    SUSPICIOUS_ACTIVITY_WINDOW |-> 24 * 60 * 60 ]

\* String.prototype.toLowerCase over the address strings of the model: the
\* checksummed (mixed-case) spellings map to their lower-case spelling.
MixedCase ==
  ("0x12D66F87A04A9e220743712cE6d9bB1B5616B8Fc" :> "0x12d66f87a04a9e220743712ce6d9bb1b5616b8fc") @@
  ("0x7a250d5630B4cF539739dF2C5dAcb4c659F2488D" :> "0x7a250d5630b4cf539739df2c5dacb4c659f2488d") @@
  ("0xSUBJECT" :> "0xsubject") @@
  ("0xA" :> "0xa") @@
  ("0xToken1" :> "0xtoken1")

ToLowerCase(str) == IF str \in DOMAIN MixedCase THEN MixedCase[str] ELSE str

analyzeRiskFlags(transactions, t) ==
  LET tornadoInteractions ==
        SelectSeq(transactions,
                  LAMBDA tx : ToLowerCase(tx.to) \in RISK_PATTERNS.TORNADO_CASH)
      recentLargeTransactions ==
        SelectSeq(transactions,
                  LAMBDA tx : /\ (t - tx.timeStamp) < RISK_PATTERNS.SUSPICIOUS_ACTIVITY_WINDOW
                              /\ tx.value > RISK_PATTERNS.LARGE_TRANSACTION_THRESHOLD)
      isInflow ==
        \E i \in 1..Len(recentLargeTransactions) :
          ToLowerCase(recentLargeTransactions[i].to)
            = ToLowerCase(recentLargeTransactions[i].from)
      tornadoFlags ==
        IF Len(tornadoInteractions) > 0
        THEN << [ type |-> "tornado_cash", severity |-> -30,
                  description |-> [ text |-> "Tornado Cash interaction(s)",
                                    n |-> Len(tornadoInteractions) ] ] >>
        ELSE <<>>
      largeFlags ==
        IF Len(recentLargeTransactions) > 0
        THEN << [ type |-> IF isInflow THEN "large_inflow" ELSE "large_outflow",
                  severity |-> -10,
                  description |-> [ text |-> "large transaction(s) in last 24h",
                                    n |-> Len(recentLargeTransactions) ] ] >>
        ELSE <<>>
  IN  tornadoFlags \o largeFlags

RECURSIVE ProtocolsFrom(_, _, _)
ProtocolsFrom(transactions, i, protocols) ==
  IF i > Len(transactions) THEN protocols
  ELSE LET toAddress == ToLowerCase(transactions[i].to)
           protocol  == KNOWN_PROTOCOL_ADDRESSES[toAddress]
       IN  IF toAddress # "" /\ toAddress \in DOMAIN KNOWN_PROTOCOL_ADDRESSES
              /\ ~IncludesTornadoCash(protocol)
              /\ \A j \in 1..Len(protocols) : protocols[j] # protocol[1]
           THEN ProtocolsFrom(transactions, i + 1, Append(protocols, protocol[1]))
           ELSE ProtocolsFrom(transactions, i + 1, protocols)

\* The Set keeps insertion order; Array.from returns it in that order.
detectProtocolInteractions(transactions) == ProtocolsFrom(transactions, 1, <<>>)

RECURSIVE InsertByTimeStamp(_, _)
InsertByTimeStamp(sorted, tx) ==
  IF sorted = <<>> THEN <<tx>>
  ELSE IF tx.timeStamp < Head(sorted).timeStamp THEN <<tx>> \o sorted
  ELSE <<Head(sorted)>> \o InsertByTimeStamp(Tail(sorted), tx)

RECURSIVE SortByTimeStamp(_, _, _)
SortByTimeStamp(transactions, i, sorted) ==
  IF i > Len(transactions) THEN sorted
  ELSE SortByTimeStamp(transactions, i + 1, InsertByTimeStamp(sorted, transactions[i]))

\* A variant that takes the first listed record for the first transaction.
calculateWalletAgeFirstListed(transactions, t) ==
  IF Len(transactions) = 0 THEN 0
  ELSE (t - transactions[1].timeStamp) \div (24 * 60 * 60)

\* A variant without the empty-list return: the age counts from the epoch.
calculateWalletAgeFromEpoch(transactions, t) ==
  IF Len(transactions) = 0 THEN t \div (24 * 60 * 60)
  ELSE LET sortedTxs == SortByTimeStamp(transactions, 1, <<>>)
       IN  (t - sortedTxs[1].timeStamp) \div (24 * 60 * 60)

calculateWalletAge(transactions, t) ==
  IF Len(transactions) = 0 THEN 0
  ELSE LET sortedTxs == SortByTimeStamp(transactions, 1, <<>>)
           firstTxTime == sortedTxs[1].timeStamp
       IN  (t - firstTxTime) \div (24 * 60 * 60)

\* A variant that counts the contracts of both lists together.
countAssetsPooled(tokenTransfers, nftTransfers) ==
  LET unique ==
        ({ ToLowerCase(tokenTransfers[i].contractAddress) : i \in 1..Len(tokenTransfers) }
           \cup { ToLowerCase(nftTransfers[i].contractAddress) : i \in 1..Len(nftTransfers) })
        \ {""}
  IN  [ tokenCount |-> Cardinality(unique), nftCount |-> Cardinality(unique) ]

countAssets(tokenTransfers, nftTransfers) ==
  LET uniqueTokens ==
        { ToLowerCase(tokenTransfers[i].contractAddress) : i \in 1..Len(tokenTransfers) } \ {""}
      uniqueNFTs ==
        { ToLowerCase(nftTransfers[i].contractAddress) : i \in 1..Len(nftTransfers) } \ {""}
  IN  [ tokenCount |-> Cardinality(uniqueTokens), nftCount |-> Cardinality(uniqueNFTs) ]

(***************************************************************************)
(* fetchRealWalletData.  resp holds the final outcome of the four client   *)
(* calls, each after its retries: <<>> for a call that threw, <<list>> for *)
(* a call that returned list.  The result is <<>> when the function throws *)
(* and <<walletData>> when it returns.                                     *)
(***************************************************************************)
\* A variant whose catch handler yields a one-record list in place of [].
OrEmptyOneRecord(outcome) ==
  IF outcome = <<>>
  THEN << [ from |-> "0xother", to |-> "0xa", value |-> 0, timeStamp |-> 0,
            contractAddress |-> "0xtoken9" ] >>
  ELSE outcome[1]

OrEmpty(outcome) == IF outcome = <<>> THEN <<>> ELSE outcome[1]

\* A variant that reports no activity when the combined list of normal and
\* internal transactions is empty.
fetchRealWalletDataCombinedEmpty(address, resp, t) ==
  IF resp.tx = <<>> THEN <<>>
  ELSE
    LET transactions    == resp.tx[1]
        internalTxs     == OrEmpty(resp.internal)
        allTransactions == transactions \o internalTxs
        assets          == countAssets(OrEmpty(resp.token), OrEmpty(resp.nft))
    IN << [ address                   |-> address,
            transactionCount          |-> Len(transactions),
            contractInteractions      |-> Len(internalTxs),
            knownProtocolInteractions |-> detectProtocolInteractions(allTransactions),
            walletAge                 |-> calculateWalletAge(transactions, t),
            tokenCount                |-> assets.tokenCount,
            nftCount                  |-> assets.nftCount,
            riskFlags                 |->
              IF Len(allTransactions) = 0
              THEN Append(analyzeRiskFlags(allTransactions, t),
                          [ type |-> "no_activity", severity |-> -20,
                            description |-> [ text |-> "Wallet has no transaction history",
                                              n |-> 0 ] ])
              ELSE analyzeRiskFlags(allTransactions, t),
            lastActivity              |->
              IF Len(transactions) > 0
              THEN [sec |-> transactions[1].timeStamp, minusMs |-> 0]
              ELSE [sec |-> 0, minusMs |-> 0] ] >>

fetchRealWalletData(address, resp, t) ==
  IF resp.tx = <<>> THEN <<>>
  ELSE
    LET transactions   == resp.tx[1]
        internalTxs    == OrEmpty(resp.internal)
        tokenTransfers == OrEmpty(resp.token)
        nftTransfers   == OrEmpty(resp.nft)
        allTransactions == transactions \o internalTxs
        analyzed       == analyzeRiskFlags(allTransactions, t)
        knownProtocolInteractions == detectProtocolInteractions(allTransactions)
        walletAge      == calculateWalletAge(transactions, t)
        assets         == countAssets(tokenTransfers, nftTransfers)
        riskFlags      ==
          IF Len(transactions) = 0
          THEN Append(analyzed,
                      [ type |-> "no_activity", severity |-> -20,
                        description |-> [ text |-> "Wallet has no transaction history",
                                          n |-> 0 ] ])
          ELSE analyzed
    IN << [ address                   |-> address,
            transactionCount          |-> Len(transactions),
            contractInteractions      |-> Len(internalTxs),
            knownProtocolInteractions |-> knownProtocolInteractions,
            walletAge                 |-> walletAge,
            tokenCount                |-> assets.tokenCount,
            nftCount                  |-> assets.nftCount,
            riskFlags                 |-> riskFlags,
            lastActivity              |->
              IF Len(transactions) > 0
              THEN [sec |-> transactions[1].timeStamp, minusMs |-> 0]
              ELSE [sec |-> 0, minusMs |-> 0] ] >>

(***************************************************************************)
(* Reputation service (reputationUtils): state and helpers.                *)
(***************************************************************************)
StartTime == 34560000   \* Date.now() of the initial state: day 400, in seconds

EmptyMap == [k \in {} |-> <<>>]

MapSet(map, key, value) ==
  [k \in (DOMAIN map) \cup {key} |-> IF k = key THEN value ELSE map[k]]

\* An apiKey is a string; undefined and '' are both falsy and are kept as "".
Truthy(apiKey) == apiKey # ""

\* A variant that keys by the address alone.
CacheKeyForAddressOnly(walletAddress, hasApiKey) == walletAddress

\* `${walletAddress}_${apiKey ? 'real' : 'fallback'}` in UTF-16 code units.
CacheKeyFor(walletAddress, hasApiKey) ==
  walletAddress \o <<95>> \o
    (IF hasApiKey THEN <<114, 101, 97, 108>>
     ELSE <<102, 97, 108, 108, 98, 97, 99, 107>>)

\* const cached = reputationCache.get(cacheKey); cached && Date.now() < cached.expiry
CacheLookupInclusive(cacheKey) ==
  IF cacheKey \in DOMAIN reputationCache /\ now <= reputationCache[cacheKey].expiry
  THEN <<reputationCache[cacheKey].result>>
  ELSE <<>>

CacheLookupNever(cacheKey) == <<>>

CacheLookup(cacheKey) ==
  IF cacheKey \in DOMAIN reputationCache /\ now < reputationCache[cacheKey].expiry
  THEN <<reputationCache[cacheKey].result>>
  ELSE <<>>

\* null is <<>>.
getCachedReputation(walletAddress, hasApiKey) ==
  CacheLookup(CacheKeyFor(walletAddress, hasApiKey))

\* calculateWalletReputation: the inner try/catch replaces a failed fetch by
\* the fallback wallet data; the outer catch (generateFallbackScore) guards
\* the rest of the body.  threw is TRUE when the promise rejects.
calculateWalletReputation(walletAddress, config, resp, t) ==
  LET fetched    == fetchRealWalletData(walletAddress, resp, t)
      walletData == IF fetched = <<>>
                    THEN generateFallbackWalletData(walletAddress, t)
                    ELSE fetched[1]
  IN  [ threw |-> FALSE, score |-> calculateScore(walletData, config.weights) ]

getWalletDataForAddress(walletAddress, resp, t) ==
  LET fetched == fetchRealWalletData(walletAddress, resp, t)
  IN  IF fetched = <<>> THEN generateFallbackWalletData(walletAddress, t) ELSE fetched[1]

\* The result of the catch block of fetchWalletReputation and of the batch.
FallbackResult(walletAddress, t) ==
  [ score |-> 25, trustLevel |-> "low", captchaMode |-> "advanced",
    walletData |-> generateFallbackWalletData(walletAddress, t),
    dataSource |-> "fallback", timestamp |-> t ]

NoCall ==
  [ pc |-> "idle", walletAddress |-> <<>>, apiKey |-> "", config |-> DEFAULT_CONFIG,
    cacheDuration |-> 0, score |-> -1, result |-> <<>>, outcome |-> "none",
    startedAt |-> 0, seen |-> <<>>, fetches |-> 0, liveOk |-> FALSE, dataOk |-> FALSE,
    cleared |-> FALSE ]

\* The synchronous head of fetchWalletReputation: destructure the options,
\* look the key up, return the cached result or go on to the computation.
\* startedAt, seen, fetches, liveOk, dataOk and cleared are history fields:
\* the time of the call, the entry physically stored for its key at that time,
\* the number of fetchRealWalletData runs it caused, whether each run
\* succeeded, and (in SpecClear) whether the cache was cleared while the call
\* was in flight.
StartedCall(walletAddress, apiKey, config, cacheDuration) ==
  LET cacheKey == CacheKeyFor(walletAddress, Truthy(apiKey))
      cached   == CacheLookup(cacheKey)
      base     == [ NoCall EXCEPT !.walletAddress = walletAddress, !.apiKey = apiKey,
                      !.config = config, !.cacheDuration = cacheDuration,
                      !.startedAt = now,
                      !.seen = IF cacheKey \in DOMAIN reputationCache
                               THEN <<reputationCache[cacheKey]>> ELSE <<>> ]
  IN  IF cached # <<>>
      THEN [ base EXCEPT !.pc = "done", !.result = cached, !.outcome = "resolved" ]
      ELSE [ base EXCEPT !.pc = "calc" ]

(***************************************************************************)
(* Inputs of the service model.                                            *)
(***************************************************************************)
EmptyAddress == <<>>
AddressA == <<48, 120, 97>>          \* "0xa"
AddressB == <<48, 120, 98, 98>>      \* "0xbb"

CustomConfig ==
  [ easyThreshold |-> 50, bypassThreshold |-> 80, weights |-> DEFAULT_WEIGHTS ]

Tx(from, to, value, timeStamp, contractAddress) ==
  [ from |-> from, to |-> to, value |-> value, timeStamp |-> timeStamp,
    contractAddress |-> contractAddress ]

Day == 24 * 60 * 60

\* Most recent first, as the client asks for sort=desc.
SomeTransactions ==
  << Tx("0xsubject", "0x12D66F87A04A9e220743712cE6d9bB1B5616B8Fc", 11, StartTime - 60, ""),
     Tx("0xsubject", "0x7a250d5630b4cf539739df2c5dacb4c659f2488d", 1, StartTime - 200 * Day, "") >>
SomeInternal ==
  << Tx("0x7a250d5630b4cf539739df2c5dacb4c659f2488d", "0xsubject", 2, StartTime - 100 * Day, "") >>
SomeTokens ==
  << Tx("0xother", "0xsubject", 0, StartTime - 50 * Day, "0xToken1"),
     Tx("0xother", "0xsubject", 0, StartTime - 40 * Day, "0xtoken1"),
     Tx("0xother", "0xsubject", 0, StartTime - 30 * Day, "0xtoken2"),
     Tx("0xother", "0xsubject", 0, StartTime - 20 * Day, "0xtoken3") >>
SomeNFTs ==
  << Tx("0xother", "0xsubject", 0, StartTime - 10 * Day, "0xnft1") >>

\* Final outcomes of getTransactions, getInternalTransactions,
\* getTokenTransfers and getNFTTransfers: every pattern of success and failure.
FetchOutcomes ==
  [ tx : {<<>>, << <<>> >>, <<SomeTransactions>>},
    internal : {<<>>, <<SomeInternal>>},
    token : {<<>>, <<SomeTokens>>},
    nft : {<<>>, <<SomeNFTs>>} ]

AllFail == [ tx |-> <<>>, internal |-> <<>>, token |-> <<>>, nft |-> <<>> ]
AllOk   == [ tx |-> <<SomeTransactions>>, internal |-> <<SomeInternal>>,
             token |-> <<SomeTokens>>, nft |-> <<SomeNFTs>> ]

(***************************************************************************)
(* Reputation service: the steps of fetchWalletReputation.                 *)
(***************************************************************************)
\* A caller invokes fetchWalletReputation(walletAddress, options).
Start(id, walletAddress, apiKey, config, cacheDuration) ==
  /\ calls[id].pc = "idle"
  /\ IF id = 1 THEN TRUE ELSE calls[id - 1].pc # "idle"
  /\ calls' = [calls EXCEPT ![id] = StartedCall(walletAddress, apiKey, config, cacheDuration)]
  /\ UNCHANGED <<now, reputationCache, batch, fnArg, fnOut, request, currentConfig, configLoaded, hook, captcha>>

\* A variant that stores the score as soon as it is known, before the wallet
\* data of the result has been fetched.
CalcDoneStoresEarly(id, resp) ==
  /\ calls[id].pc = "calc"
  /\ LET c    == calls[id]
         calc == calculateWalletReputation(c.walletAddress, c.config, resp, now)
     IN  /\ calls' = [calls EXCEPT ![id] =
               [ c EXCEPT !.pc = "data", !.score = calc.score,
                   !.fetches = c.fetches + 1, !.liveOk = (resp.tx # <<>>) ]]
         /\ reputationCache' =
              MapSet(reputationCache, CacheKeyFor(c.walletAddress, Truthy(c.apiKey)),
                     [ result |-> [ score |-> calc.score ], expiry |-> now + c.cacheDuration ])
  /\ UNCHANGED <<now, batch, fnArg, fnOut, request, currentConfig, configLoaded, hook, captcha>>

\* await calculateWalletReputation(...) settles; resp is what the client got.
CalcDone(id, resp) ==
  /\ calls[id].pc = "calc"
  /\ LET c    == calls[id]
         calc == calculateWalletReputation(c.walletAddress, c.config, resp, now)
     IN  calls' = [calls EXCEPT ![id] =
           IF calc.threw
           THEN [ c EXCEPT !.pc = "done", !.outcome = "resolved",
                    !.result = <<FallbackResult(c.walletAddress, now)>>,
                    !.fetches = c.fetches + 1 ]
           ELSE [ c EXCEPT !.pc = "data", !.score = calc.score,
                    !.fetches = c.fetches + 1, !.liveOk = (resp.tx # <<>>) ] ]
  /\ UNCHANGED <<now, reputationCache, batch, fnArg, fnOut, request, currentConfig, configLoaded, hook, captcha>>

\* await getWalletDataForAddress(...) settles; the result is built, cached
\* and returned without a further await.
DataDone(id, resp) ==
  /\ calls[id].pc = "data"
  /\ LET c == calls[id]
         result == [ score      |-> c.score,
                     trustLevel |-> getTrustLevel(c.score),
                     captchaMode |-> determineCaptchaMode(c.score, DEFAULT_CONFIG),
                     walletData |-> getWalletDataForAddress(c.walletAddress, resp, now),
                     dataSource |-> IF Truthy(c.apiKey) THEN "etherscan" ELSE "fallback",
                     timestamp  |-> now ]
         cacheKey == CacheKeyFor(c.walletAddress, Truthy(c.apiKey))
     IN  /\ calls' = [calls EXCEPT ![id] =
               [ c EXCEPT !.pc = "done", !.outcome = "resolved", !.result = <<result>>,
                   !.fetches = c.fetches + 1, !.dataOk = (resp.tx # <<>>) ]]
         /\ reputationCache' =
              MapSet(reputationCache, cacheKey,
                     [ result |-> result, expiry |-> now + c.cacheDuration ])
  /\ UNCHANGED <<now, batch, fnArg, fnOut, request, currentConfig, configLoaded, hook, captcha>>

\* A variant that drops only the entries a lookup already misses.
clearReputationCacheExpiredOnly ==
  /\ reputationCache' =
       [ k \in { key \in DOMAIN reputationCache : now < reputationCache[key].expiry }
           |-> reputationCache[k] ]
  /\ UNCHANGED <<now, calls, batch, fnArg, fnOut, request, currentConfig, configLoaded, hook, captcha>>

clearReputationCache ==
  /\ reputationCache' = EmptyMap
  /\ UNCHANGED <<now, calls, batch, fnArg, fnOut, request, currentConfig, configLoaded, hook, captcha>>

\* clearReputationCache with its history: the calls in flight are marked.
ClearWhileInFlight ==
  /\ reputationCache' = EmptyMap
  /\ calls' = [id \in DOMAIN calls |->
                IF calls[id].pc \in {"calc", "data"}
                THEN [calls[id] EXCEPT !.cleared = TRUE]
                ELSE calls[id]]
  /\ UNCHANGED <<now, batch, fnArg, fnOut, request, currentConfig, configLoaded, hook, captcha>>

\* Time passes: half a default cache duration per step.
Tick ==
  /\ now < StartTime + MaxTime * 150
  /\ now' = now + 150
  /\ UNCHANGED <<reputationCache, calls, batch, fnArg, fnOut, request, currentConfig, configLoaded, hook, captcha>>

\* useWalletReputation before any fetch: the useState and useRef initial
\* values and the walletAddress option.  null and undefined are <<>>.  fetches holds the frames of the fetchReputation
\* invocations in call order and lastRequested the address of the latest
\* one; both are history.
NoHook ==
  [ reputationData |-> <<>>, isLoading |-> FALSE, error |-> <<>>,
    currentWalletRef |-> <<>>, refreshTimer |-> <<>>, walletAddress |-> <<>>,
    fetches |-> <<>>, lastRequested |-> <<>> ]

InitialTimeLeft == 30   \* useState(30), setTimeLeft(30)

\* useCaptchaLogic before the modal is opened.  A closure is the state a
\* callback saw in the render that created it.  alignmentTimer holds the
\* closure of the pending 2 s alignment timeout, signClosure that of the
\* signWithWallet call in flight and signAttempts the attempts it saw,
\* nextCalls the closures of the pending
\* timeouts that call nextStep, in the order they were set, stepTimers the
\* pending steps of
\* animateToStep, transitionTimer its pending 50 ms timeout and successTimers
\* the number of pending 3 s timeouts of nextStep.  sessions, outcome,
\* onSuccessCalls and onFailureCalls are history: the number of openModal
\* calls, the way the latest session ended first and the callback
\* invocations since it was opened.
NoCaptcha ==
  [ mode |-> "simple", isOpen |-> FALSE, currentStep |-> 1, isTransitioning |-> FALSE,
    isAligned |-> FALSE, isCompleted |-> FALSE, showSuccess |-> FALSE,
    timeLeft |-> InitialTimeLeft, walletSigning |-> FALSE, walletSigned |-> FALSE,
    attempts |-> 0,
    alignmentTimer |-> <<>>, signClosure |-> <<>>, signAttempts |-> 0,
    nextCalls |-> <<>>,
    stepTimers |-> {}, transitionTimer |-> FALSE, successTimers |-> 0,
    sessions |-> 0, outcome |-> "none", onSuccessCalls |-> 0, onFailureCalls |-> 0 ]

NoBatch ==
  [ pc |-> "none", walletAddresses |-> <<>>, apiKey |-> "", i |-> 0, results |-> EmptyMap,
    unavailable |-> {} ]

(***************************************************************************)
(* Ledger data client: EtherscanAPI.makeRequest, one attempt per step.     *)
(***************************************************************************)
MaxRetries == 3    \* largest retries value a caller configures

\* What one fetch(url, { signal }) and response.json() can come to.
Aborted  == [ fetch |-> "aborted", ok |-> FALSE, status |-> "", message |-> "",
              result |-> <<>> ]
Refused  == [ fetch |-> "failed", ok |-> FALSE, status |-> "", message |-> "",
              result |-> <<>> ]
Http500  == [ fetch |-> "resolved", ok |-> FALSE, status |-> "", message |-> "",
              result |-> <<>> ]
NotOk    == [ fetch |-> "resolved", ok |-> TRUE, status |-> "0", message |-> "NOTOK",
              result |-> <<>> ]
NotFound == [ fetch |-> "resolved", ok |-> TRUE, status |-> "0",
              message |-> "No transactions found", result |-> <<>> ]
Found    == [ fetch |-> "resolved", ok |-> TRUE, status |-> "1", message |-> "OK",
              result |-> SomeTransactions ]

Responses == {Aborted, Refused, Http500, NotOk, NotFound, Found}

AttemptErrorStrict(response) ==
  IF response.fetch # "resolved" THEN <<response.fetch>>
  ELSE IF ~response.ok THEN <<"HTTP">>
  ELSE IF response.status = "0" THEN <<"Etherscan API error">>
  ELSE <<>>

\* The error the try block of one attempt throws, <<>> when it returns.
AttemptError(response) ==
  IF response.fetch # "resolved" THEN <<response.fetch>>
  ELSE IF ~response.ok THEN <<"HTTP">>
  ELSE IF response.status = "0" /\ response.message # "No transactions found"
       THEN <<"Etherscan API error">>
  ELSE <<>>

\* this.retries = config.retries || 3
EffectiveRetries(retries) == IF retries = 0 THEN 3 ELSE retries

LoopContinuesInclusive(attempt, retries) == attempt <= retries

\* for (let attempt = 0; attempt < this.retries; attempt++)
LoopContinues(attempt, retries) == attempt < retries

\* Math.pow(2, attempt) * 1000 milliseconds, in seconds.
BackoffDelay(attempt) == 2 ^ attempt

\* responses and delays are history fields: what each attempt came to and the
\* delays slept.
NoRequest ==
  [ pc |-> "idle", retries |-> 0, attempt |-> 0, lastError |-> <<>>,
    result |-> <<>>, error |-> <<>>, responses |-> <<>>, delays |-> <<>> ]

\* After the loop: throw lastError || new Error('Failed to fetch data from Etherscan')
Thrown(frame) ==
  [ frame EXCEPT !.pc = "threw",
      !.error = IF frame.lastError # <<>> THEN frame.lastError
                ELSE <<"Failed to fetch data from Etherscan">> ]

\* new EtherscanAPI({ retries }) and a call of makeRequest up to its first await.
makeRequest(retries) ==
  /\ request.pc = "idle"
  /\ LET frame == [ NoRequest EXCEPT !.retries = EffectiveRetries(retries) ] IN
     request' = IF LoopContinues(0, frame.retries)
                THEN [ frame EXCEPT !.pc = "fetch" ]
                ELSE Thrown(frame)
  /\ UNCHANGED <<now, reputationCache, calls, batch, fnArg, fnOut, currentConfig, configLoaded, hook, captcha>>

\* The fetch of the current attempt settles: return data.result, or catch the
\* error and go to sleep, or leave the loop after the last attempt.
AttemptSettles(response) ==
  /\ request.pc = "fetch"
  /\ LET err    == AttemptError(response)
         logged == [ request EXCEPT !.responses = Append(@, response) ]
         failed == [ logged EXCEPT !.lastError = err ]
     IN  request' =
           IF err = <<>>
           THEN [ logged EXCEPT !.pc = "returned", !.result = <<response.result>> ]
           ELSE IF request.attempt < request.retries - 1
           THEN [ failed EXCEPT !.pc = "backoff" ]
           ELSE IF LoopContinues(request.attempt + 1, request.retries)
           THEN [ failed EXCEPT !.attempt = @ + 1 ]
           ELSE Thrown([ failed EXCEPT !.attempt = @ + 1 ])
  /\ UNCHANGED <<now, reputationCache, calls, batch, fnArg, fnOut, currentConfig, configLoaded, hook, captcha>>

\* The setTimeout of the backoff fires; attempt++ and the next attempt starts.
BackoffElapses ==
  /\ request.pc = "backoff"
  /\ now' = now + BackoffDelay(request.attempt)
  /\ LET slept == [ request EXCEPT !.delays = Append(@, BackoffDelay(request.attempt)),
                                    !.attempt = @ + 1 ]
     IN  request' = IF LoopContinues(slept.attempt, slept.retries)
                    THEN [ slept EXCEPT !.pc = "fetch" ]
                    ELSE Thrown(slept)
  /\ UNCHANGED <<reputationCache, calls, batch, fnArg, fnOut, currentConfig, configLoaded, hook, captcha>>

\* What getTransactions hands to fetchRealWalletData: the list, or the throw.
TransactionsOutcome == IF request.pc = "returned" THEN request.result ELSE <<>>

InitRequest ==
  /\ now = StartTime
  /\ reputationCache = EmptyMap
  /\ calls = [id \in {} |-> NoCall]
  /\ batch = NoBatch
  /\ fnArg = <<>>
  /\ fnOut = <<>>
  /\ request = NoRequest
  /\ currentConfig = defaultConfig
  /\ configLoaded = TRUE
  /\ hook = NoHook
  /\ captcha = NoCaptcha

NextRequest ==
  \/ \E retries \in {-1} \cup 0..MaxRetries : makeRequest(retries)
  \/ \E response \in Responses : AttemptSettles(response)
  \/ BackoffElapses

\* A fetch settles (the AbortController bounds it by the timeout) and a timer
\* fires.
SpecRequest ==
  /\ InitRequest /\ [][NextRequest]_vars
  /\ WF_vars(\E response \in Responses : AttemptSettles(response))
  /\ WF_vars(BackoffElapses)

Init ==
  /\ now = StartTime
  /\ reputationCache = EmptyMap
  /\ calls = [id \in 1..MaxCalls |-> NoCall]
  /\ batch = NoBatch
  /\ fnArg = <<>>
  /\ fnOut = <<>>
  /\ request = NoRequest
  /\ currentConfig = defaultConfig
  /\ configLoaded = TRUE
  /\ hook = NoHook
  /\ captcha = NoCaptcha

\* The caches, the clock and overlapping calls: one address in both
\* data-source modes, the client failing or answering in full for the two
\* fetches of a call alike.
Next ==
  \/ \E id \in DOMAIN calls, apiKey \in {"", "KEY"} :
       Start(id, AddressA, apiKey, DEFAULT_CONFIG, 300)
  \/ \E id \in DOMAIN calls, resp \in {AllFail, AllOk} : CalcDone(id, resp)
  \/ \E id \in DOMAIN calls :
       DataDone(id, IF calls[id].liveOk THEN AllOk ELSE AllFail)
  \/ clearReputationCache
  \/ Tick

Spec == Init /\ [][Next]_vars

\* The same behaviours with the history of the clears.
NextClear ==
  \/ \E id \in DOMAIN calls, apiKey \in {"", "KEY"} :
       Start(id, AddressA, apiKey, DEFAULT_CONFIG, 300)
  \/ \E id \in DOMAIN calls, resp \in {AllFail, AllOk} : CalcDone(id, resp)
  \/ \E id \in DOMAIN calls :
       DataDone(id, IF calls[id].liveOk THEN AllOk ELSE AllFail)
  \/ ClearWhileInFlight
  \/ Tick

SpecClear == Init /\ [][NextClear]_vars

\* One call in depth: every address, option and pattern of client outcomes.
InitFetch ==
  /\ now = StartTime
  /\ reputationCache = EmptyMap
  /\ calls = [id \in {1} |-> NoCall]
  /\ batch = NoBatch
  /\ fnArg = <<>>
  /\ fnOut = <<>>
  /\ request = NoRequest
  /\ currentConfig = defaultConfig
  /\ configLoaded = TRUE
  /\ hook = NoHook
  /\ captcha = NoCaptcha

NextFetch ==
  \/ \E walletAddress \in {EmptyAddress, AddressA, AddressB},
        apiKey \in {"", "KEY"}, config \in {DEFAULT_CONFIG, CustomConfig},
        cacheDuration \in {300, 600} :
       Start(1, walletAddress, apiKey, config, cacheDuration)
  \/ \E resp \in FetchOutcomes : CalcDone(1, resp)
  \/ \E resp \in FetchOutcomes : DataDone(1, resp)
  \/ Tick

SpecFetch == InitFetch /\ [][NextFetch]_vars

(***************************************************************************)
(* batchFetchWalletReputation: groups of batchSize addresses; the members  *)
(* of a group run concurrently and Promise.all joins them.  The call and   *)
(* each join run on to the next batch.map without an await, so a group is  *)
(* started in the same step.                                               *)
(***************************************************************************)
batchSize == 5

GroupEndAll(i, len) == len

\* walletAddresses.slice(i, i + batchSize) holds the members i+1 .. GroupEnd.
GroupEnd(i, len) == Min(i + batchSize, len)

NextIndexSkipping(i) == i + batchSize + 1

\* i += batchSize
NextIndex(i) == i + batchSize

GroupOf(i) == (i + 1)..GroupEnd(i, Len(batch.walletAddresses))

\* The members of the group at i make their synchronous start, in order.
StartGroup(i) ==
  [ id \in DOMAIN calls |->
      IF id \in GroupOf(i)
      THEN StartedCall(batch.walletAddresses[id], batch.apiKey, DEFAULT_CONFIG, 300)
      ELSE calls[id] ]

\* try { result = await fetchWalletReputation(address, options) } catch { ... }
MemberResult(id) ==
  IF calls[id].outcome = "resolved"
  THEN calls[id].result[1]
  ELSE FallbackResult(batch.walletAddresses[id], now)

\* batchResults.forEach(({ address, result }) => { results[address] = result })
RECURSIVE AssignResults(_, _, _)
AssignResults(results, id, hi) ==
  IF id > hi THEN results
  ELSE AssignResults(MapSet(results, batch.walletAddresses[id], MemberResult(id)),
                     id + 1, hi)

BatchCall ==
  /\ batch.pc = "idle"
  /\ IF 0 < Len(batch.walletAddresses)
     THEN /\ calls' = StartGroup(0)
          /\ batch' = [batch EXCEPT !.pc = "await"]
     ELSE /\ batch' = [batch EXCEPT !.pc = "done"]
          /\ UNCHANGED calls
  /\ UNCHANGED <<now, reputationCache, fnArg, fnOut, request, currentConfig, configLoaded, hook, captcha>>

\* await Promise.all(batchPromises) resumes once every member has settled.
BatchJoin ==
  /\ batch.pc = "await"
  /\ \A id \in GroupOf(batch.i) : calls[id].pc = "done"
  /\ LET len     == Len(batch.walletAddresses)
         results == AssignResults(batch.results, batch.i + 1, GroupEnd(batch.i, len))
         i       == NextIndex(batch.i)
     IN  IF i < len
         THEN /\ batch' = [batch EXCEPT !.results = results, !.i = i]
              /\ calls' = StartGroup(i)
         ELSE /\ batch' = [batch EXCEPT !.results = results, !.i = i, !.pc = "done"]
              /\ UNCHANGED calls
  /\ UNCHANGED <<now, reputationCache, fnArg, fnOut, request, currentConfig, configLoaded, hook, captcha>>

\* Address lists: n distinct addresses, and n addresses with repetitions.
BatchAddress(k) == <<48, 120, 97 + k>>

BatchInputs ==
  { [i \in 1..n |-> BatchAddress(i)] : n \in 1..MaxBatchLen } \cup
  { [i \in 1..n |-> BatchAddress(i % 2)] : n \in 2..MaxBatchLen } \cup
  { [i \in 1..n |-> BatchAddress((i * i) % 5)] : n \in 3..MaxBatchLen }

\* During one batch the indexing service is down for a set of addresses
\* (batch.unavailable): every client call for them fails on every attempt.
UnavailableChoices ==
  { {}, { BatchAddress(k) : k \in 0..MaxBatchLen },
    { BatchAddress(k) : k \in { j \in 0..MaxBatchLen : j % 2 = 1 } } }

LedgerResponse(walletAddress) ==
  IF walletAddress \in batch.unavailable THEN AllFail ELSE AllOk

InitBatch ==
  /\ now = StartTime
  /\ reputationCache = EmptyMap
  /\ \E walletAddresses \in BatchInputs, apiKey \in {"", "KEY"},
        unavailable \in UnavailableChoices :
       /\ batch = [ pc |-> "idle", walletAddresses |-> walletAddresses,
                    apiKey |-> apiKey, i |-> 0, results |-> EmptyMap,
                    unavailable |-> unavailable ]
       /\ calls = [id \in 1..Len(walletAddresses) |-> NoCall]
  /\ fnArg = <<>>
  /\ fnOut = <<>>
  /\ request = NoRequest
  /\ currentConfig = defaultConfig
  /\ configLoaded = TRUE
  /\ hook = NoHook
  /\ captcha = NoCaptcha

NextBatch ==
  \/ BatchCall
  \/ BatchJoin
  \/ \E id \in DOMAIN calls : CalcDone(id, LedgerResponse(calls[id].walletAddress))
  \/ \E id \in DOMAIN calls : DataDone(id, LedgerResponse(calls[id].walletAddress))

SpecBatch == InitBatch /\ [][NextBatch]_vars

(***************************************************************************)
(* The scoring engine on its own: calculateScore applied to a drawn        *)
(* WalletData and weights.                                                 *)
(***************************************************************************)
Flag(type, severity) ==
  [ type |-> type, severity |-> severity, description |-> [ text |-> type, n |-> 0 ] ]

FlagChoices ==
  { Flag("tornado_cash", -30), Flag("large_inflow", -10), Flag("no_activity", -20) }

SeqsUpTo(S, n) == UNION { [1..k -> S] : k \in 0..n }

DoubledWeights ==
  [ transactionActivity |-> 60, contractInteractions |-> 40, walletAge |-> 40,
    tokenDiversity |-> 20, riskFlags |-> -60 ]

ScoreInputs ==
  [ data :
      [ address : {AddressA},
        transactionCount : {0, 1, 10, 11, 100, 101, 150},
        contractInteractions : {0, 5},
        knownProtocolInteractions : {<<>>, <<"uniswap">>},
        walletAge : {0, 29, 30, 179, 180, 200},
        tokenCount : {0, 1, 3, 11},
        nftCount : {0, 1},
        riskFlags : SeqsUpTo(FlagChoices, MaxFlags),
        lastActivity : {[sec |-> 0, minusMs |-> 0]} ],
    weights : {DEFAULT_WEIGHTS, DoubledWeights} ]

InitScore ==
  /\ now = StartTime
  /\ reputationCache = EmptyMap
  /\ calls = [id \in {} |-> NoCall]
  /\ batch = NoBatch
  /\ fnArg \in ScoreInputs
  /\ fnOut = <<>>
  /\ request = NoRequest
  /\ currentConfig = defaultConfig
  /\ configLoaded = TRUE
  /\ hook = NoHook
  /\ captcha = NoCaptcha

ScoreCall ==
  /\ Len(fnOut) < 2
  /\ fnOut' = Append(fnOut, calculateScore(fnArg.data, fnArg.weights))
  /\ UNCHANGED <<now, reputationCache, calls, batch, fnArg, request, currentConfig, configLoaded, hook, captcha>>

NextScore == ScoreCall

SpecScore == InitScore /\ [][NextScore]_vars

(***************************************************************************)
(* The fallback scorer on its own: generateFallbackScore applied twice to  *)
(* a drawn address string while the clock runs.                            *)
(***************************************************************************)
\* "4nafjwl": its rolling hash is exactly -2^31.
MinHashAddress == <<52, 110, 97, 102, 106, 119, 108>>

\* '0x1234567890123456789012345678901234567890' of customScoring.test.ts.
TestAddress ==
  <<48, 120>> \o
  [i \in 1..40 |-> IF i % 10 = 0 THEN 48 ELSE 48 + (i % 10)]

HashInputs ==
  SeqsUpTo({48, 102, 120}, MaxLen) \cup {MinHashAddress, TestAddress, AddressA, AddressB}

InitHash ==
  /\ now = StartTime
  /\ reputationCache = EmptyMap
  /\ calls = [id \in {} |-> NoCall]
  /\ batch = NoBatch
  /\ fnArg \in HashInputs
  /\ fnOut = <<>>
  /\ request = NoRequest
  /\ currentConfig = defaultConfig
  /\ configLoaded = TRUE
  /\ hook = NoHook
  /\ captcha = NoCaptcha

FallbackScoreCall ==
  /\ Len(fnOut) < 2
  /\ fnOut' = Append(fnOut, generateFallbackScore(fnArg))
  /\ UNCHANGED <<now, reputationCache, calls, batch, fnArg, request, currentConfig, configLoaded, hook, captcha>>

NextHash == FallbackScoreCall \/ Tick

SpecHash == InitHash /\ [][NextHash]_vars

(***************************************************************************)
(* The classifiers on their own: getTrustLevel and determineCaptchaMode    *)
(* with its default config, applied to a drawn score.                      *)
(***************************************************************************)
MaxScore == 100

InitClassify ==
  /\ now = StartTime
  /\ reputationCache = EmptyMap
  /\ calls = [id \in {} |-> NoCall]
  /\ batch = NoBatch
  /\ fnArg \in 0..MaxScore
  /\ fnOut = <<>>
  /\ request = NoRequest
  /\ currentConfig = defaultConfig
  /\ configLoaded = TRUE
  /\ hook = NoHook
  /\ captcha = NoCaptcha

ClassifyCall ==
  /\ Len(fnOut) < 1
  /\ fnOut' = Append(fnOut, [ trustLevel  |-> getTrustLevel(fnArg),
                              captchaMode |-> determineCaptchaMode(fnArg, DEFAULT_CONFIG) ])
  /\ UNCHANGED <<now, reputationCache, calls, batch, fnArg, request, currentConfig, configLoaded, hook, captcha>>

NextClassify == ClassifyCall

SpecClassify == InitClassify /\ [][NextClassify]_vars

(***************************************************************************)
(* The scoring engine on a WalletData and on a second one that differs     *)
(* from it by one mixer flag or by its transaction count, as the test      *)
(* "should apply risk flags correctly" builds them.  Each call is logged   *)
(* with the WalletData it was given.                                       *)
(***************************************************************************)
EditInputs ==
  [ data :
      [ address : {AddressA},
        transactionCount : {0, 1, 10, 11, 100, 101, 150},
        contractInteractions : {0, 5},
        knownProtocolInteractions : {<<>>, <<"uniswap">>},
        walletAge : {0, 30, 180},
        tokenCount : {0, 3, 11},
        nftCount : {0},
        riskFlags : SeqsUpTo(FlagChoices, MaxFlags),
        lastActivity : {[sec |-> 0, minusMs |-> 0]} ],
    weights : {DEFAULT_WEIGHTS, DoubledWeights} ]

InitEdit ==
  /\ now = StartTime
  /\ reputationCache = EmptyMap
  /\ calls = [id \in {} |-> NoCall]
  /\ batch = NoBatch
  /\ fnArg \in EditInputs
  /\ fnOut = <<>>
  /\ request = NoRequest
  /\ currentConfig = defaultConfig
  /\ configLoaded = TRUE
  /\ hook = NoHook
  /\ captcha = NoCaptcha

ScoreLogged ==
  /\ Len(fnOut) < 2
  /\ fnOut' = Append(fnOut, [ data  |-> fnArg.data,
                              score |-> calculateScore(fnArg.data, fnArg.weights) ])
  /\ UNCHANGED <<now, reputationCache, calls, batch, fnArg, request, currentConfig, configLoaded, hook, captcha>>

MixerFlag == Flag("tornado_cash", -30)

\* The caller adds a mixer flag to the WalletData it has just scored.
AddMixerFlag ==
  /\ Len(fnOut) = 1
  /\ fnArg.data = fnOut[1].data
  /\ fnArg' = [fnArg EXCEPT !.data.riskFlags = Append(@, MixerFlag)]
  /\ UNCHANGED <<now, reputationCache, calls, batch, fnOut, request, currentConfig, configLoaded, hook, captcha>>

\* The caller changes the transaction count of the WalletData it has just scored.
SetTransactionCount(n) ==
  /\ Len(fnOut) = 1
  /\ fnArg.data = fnOut[1].data
  /\ n # fnArg.data.transactionCount
  /\ fnArg' = [fnArg EXCEPT !.data.transactionCount = n]
  /\ UNCHANGED <<now, reputationCache, calls, batch, fnOut, request, currentConfig, configLoaded, hook, captcha>>

NextEdit ==
  \/ ScoreLogged
  \/ AddMixerFlag
  \/ \E n \in {0, 1, 10, 11, 100, 101, 150} : SetTransactionCount(n)

SpecEdit == InitEdit /\ [][NextEdit]_vars

(***************************************************************************)
(* The live path on its own: fetchRealWalletData and the synthetic         *)
(* generator applied to a drawn address and drawn outcomes of the four     *)
(* client calls while the clock runs.                                      *)
(***************************************************************************)
MaxTxs == 2   \* longest drawn transaction list

\* The address as transaction records spell it.
AddressString == (AddressA :> "0xa") @@ (AddressB :> "0xbb")

\* Records of the subject "0xa": an incoming large transfer a minute old, an
\* outgoing large transfer that leaves the 24 h window at the first tick, an
\* old small payment to a mixer and a large transfer to itself.
LiveTxChoices ==
  { Tx("0xother", "0xA", 11, StartTime - 60, ""),
    Tx("0xa", "0xother", 11, StartTime - Day + 150, ""),
    Tx("0xa", "0x12D66F87A04A9e220743712cE6d9bB1B5616B8Fc", 1, StartTime - 200 * Day, ""),
    Tx("0xa", "0xa", 11, StartTime - 60, "") }

LiveOutcomes ==
  [ tx : {<<>>} \cup { <<list>> : list \in SeqsUpTo(LiveTxChoices, MaxTxs) },
    internal : {<<>>, << <<>> >>, <<SomeInternal>>},
    token : {<<>>, << <<>> >>, <<SomeTokens>>},
    nft : {<<>>, <<SomeNFTs>>} ]

InitLive ==
  /\ now = StartTime
  /\ reputationCache = EmptyMap
  /\ calls = [id \in {} |-> NoCall]
  /\ batch = NoBatch
  /\ fnArg \in [ address : {AddressA, AddressB, MinHashAddress}, resp : LiveOutcomes ]
  /\ fnOut = <<>>
  /\ request = NoRequest
  /\ currentConfig = defaultConfig
  /\ configLoaded = TRUE
  /\ hook = NoHook
  /\ captcha = NoCaptcha

LiveCall ==
  /\ Len(fnOut) < 2
  /\ fnOut' = Append(fnOut, [ path |-> "live", at |-> now,
                              data |-> fetchRealWalletData(fnArg.address, fnArg.resp, now) ])
  /\ UNCHANGED <<now, reputationCache, calls, batch, fnArg, request, currentConfig, configLoaded, hook, captcha>>

FallbackCall ==
  /\ Len(fnOut) < 2
  /\ fnOut' = Append(fnOut, [ path |-> "fallback", at |-> now,
                              data |-> <<generateFallbackWalletData(fnArg.address, now)>> ])
  /\ UNCHANGED <<now, reputationCache, calls, batch, fnArg, request, currentConfig, configLoaded, hook, captcha>>

NextLive == LiveCall \/ FallbackCall \/ Tick

SpecLive == InitLive /\ [][NextLive]_vars

(***************************************************************************)
(* The analyzers on their own: analyzeRiskFlags and                        *)
(* detectProtocolInteractions applied to a drawn transaction list while    *)
(* the clock runs.                                                         *)
(***************************************************************************)
MaxRecords == 3   \* longest list given to an analyzer

TxChoices ==
  LiveTxChoices \cup
  { Tx("0x47ce0c6ed5b0ce3d3a51fdb1c52dc66a7c3c2936", "0xa", 11, StartTime - 60, ""),
    Tx("0xa", "0x7a250d5630B4cF539739dF2C5dAcb4c659F2488D", 1, StartTime - 200 * Day, ""),
    Tx("0xa", "0xe592427a0aece92de3edee1f18e0157c05861564", 1, StartTime - 100 * Day, ""),
    Tx("0xa", "0x7d2768de32b0b80b7a3454c06bdac94a69ddc7a9", 10, StartTime - 60, ""),
    Tx("0xa", "", 11, StartTime - 2 * Day, ""),
    Tx("0xa", "0xother", 1, StartTime - 60, "") }

InitAnalyze ==
  /\ now = StartTime
  /\ reputationCache = EmptyMap
  /\ calls = [id \in {} |-> NoCall]
  /\ batch = NoBatch
  /\ fnArg \in SeqsUpTo(TxChoices, MaxRecords)
  /\ fnOut = <<>>
  /\ request = NoRequest
  /\ currentConfig = defaultConfig
  /\ configLoaded = TRUE
  /\ hook = NoHook
  /\ captcha = NoCaptcha

RiskFlagsCall ==
  /\ Len(fnOut) < 2
  /\ fnOut' = Append(fnOut, [ fn |-> "analyzeRiskFlags", at |-> now,
                              out |-> analyzeRiskFlags(fnArg, now) ])
  /\ UNCHANGED <<now, reputationCache, calls, batch, fnArg, request, currentConfig, configLoaded, hook, captcha>>

ProtocolsCall ==
  /\ Len(fnOut) < 2
  /\ fnOut' = Append(fnOut, [ fn |-> "detectProtocolInteractions", at |-> now,
                              out |-> detectProtocolInteractions(fnArg) ])
  /\ UNCHANGED <<now, reputationCache, calls, batch, fnArg, request, currentConfig, configLoaded, hook, captcha>>

NextAnalyze == RiskFlagsCall \/ ProtocolsCall \/ Tick

SpecAnalyze == InitAnalyze /\ [][NextAnalyze]_vars

(***************************************************************************)
(* fetchWalletReputation of lib/reputation.ts.  That module has a Map of   *)
(* its own, also named reputationCache, keyed by the wallet address and    *)
(* holding ReputationData; in SpecSweep the variable reputationCache is    *)
(* that Map and calls[1] is the one call in flight.  putSize and freshKeys *)
(* are history fields: the size of the Map right after the set and the     *)
(* keys that a lookup at that moment would still serve; count is the       *)
(* number of invocations so far.                                           *)
(***************************************************************************)
MaxSweepCalls == 2           \* invocations of one behaviour
CacheCeiling == 100          \* reputationCache.size > 100
CacheLifetime == 300         \* Date.now() + 300000, in seconds

\* Math.round on an integer score is the identity.
normalizeScore(rawScore) ==
  IF rawScore < 0 THEN 0 ELSE IF rawScore > 100 THEN 100 ELSE rawScore

\* for (const [key, value] of entries()) if (now > value.cacheExpiry) delete(key)
CleanOldEntries(map, t) ==
  [ key \in { k \in DOMAIN map : ~(t > map[k].cacheExpiry) } |-> map[key] ]

\* The ReputationData built from one source result.  Weights are kept in
\* tenths (1.0 is 10, 0.5 is 5);
\* Math.round((normalizedScore * weight) / weight) is normalizedScore.
ReputationDataOf(walletAddress, source, rawScore, normalizedScore, weight, t) ==
  [ walletAddress |-> walletAddress,
    score         |-> (normalizedScore * weight) \div weight,
    sources       |-> << [ source |-> source,
                           rawScore |-> rawScore,
                           normalizedScore |-> normalizedScore,
                           weight |-> weight,
                           success |-> source = "custom" ] >>,
    lastUpdated   |-> t,
    cacheExpiry   |-> t + CacheLifetime ]

\* try: the custom score, with full weight; catch: generateFallbackScore,
\* with half weight.
SourceResult(walletAddress, calc, t) ==
  IF calc.threw
  THEN ReputationDataOf(walletAddress, "fallback", generateFallbackScore(walletAddress),
                        normalizeScore(generateFallbackScore(walletAddress)), 5, t)
  ELSE ReputationDataOf(walletAddress, "custom", calc.score, normalizeScore(calc.score), 10, t)

ReputationDataFor(walletAddress, resp, t) ==
  SourceResult(walletAddress,
               calculateWalletReputation(walletAddress, DEFAULT_CONFIG, resp, t), t)

NoLibCall ==
  [ pc |-> "idle", walletAddress |-> <<>>, result |-> <<>>, hit |-> FALSE,
    putSize |-> 0, freshKeys |-> {}, settledAt |-> 0, count |-> 0 ]

\* The synchronous head: the cached entry is returned while now < cacheExpiry.
ReputationStart(walletAddress) ==
  /\ calls[1].pc # "calc"
  /\ calls[1].count < MaxSweepCalls
  /\ LET cached == IF walletAddress \in DOMAIN reputationCache
                   THEN <<reputationCache[walletAddress]>> ELSE <<>>
     IN  calls' = [calls EXCEPT ![1] =
           IF cached # <<>> /\ now < cached[1].cacheExpiry
           THEN [ NoLibCall EXCEPT !.pc = "done", !.walletAddress = walletAddress,
                    !.result = cached, !.hit = TRUE, !.settledAt = now,
                    !.count = calls[1].count + 1 ]
           ELSE [ NoLibCall EXCEPT !.pc = "calc", !.walletAddress = walletAddress,
                    !.count = calls[1].count + 1 ] ]
  /\ UNCHANGED <<now, reputationCache, batch, fnArg, fnOut, request, currentConfig, configLoaded, hook, captcha>>

\* reputationCache.set(walletAddress, reputationData) and the clean-up of a
\* Map that then holds more than 100 entries.
SetAndClean(afterSet, t) ==
  IF Cardinality(DOMAIN afterSet) > CacheCeiling THEN CleanOldEntries(afterSet, t) ELSE afterSet

Returned(frame, reputationData, afterSet, t) ==
  [ frame EXCEPT !.pc = "done", !.result = <<reputationData>>,
      !.putSize = Cardinality(DOMAIN afterSet), !.settledAt = t,
      !.freshKeys = { k \in DOMAIN afterSet : t < afterSet[k].cacheExpiry } ]

StoreAndReturn(reputationData) ==
  /\ reputationCache' =
       SetAndClean(MapSet(reputationCache, reputationData.walletAddress, reputationData), now)
  /\ calls' = [calls EXCEPT ![1] =
       Returned(calls[1], reputationData,
                MapSet(reputationCache, reputationData.walletAddress, reputationData), now)]

\* await calculateWalletReputation(...) settles; the result is built, set in
\* the Map, the Map is cleaned when it holds more than 100 entries, and the
\* result is returned, all without a further await.
ReputationSettle(resp) ==
  /\ calls[1].pc = "calc"
  /\ StoreAndReturn(ReputationDataFor(calls[1].walletAddress, resp, now))
  /\ UNCHANGED <<now, batch, fnArg, fnOut, request, currentConfig, configLoaded, hook, captcha>>

\* "0x" followed by the three decimal digits of k.
LibAddress(k) == <<48, 120, 48 + (k \div 100), 48 + ((k \div 10) % 10), 48 + (k % 10)>>

\* A Map filled to the ceiling by earlier calls: of every four entries one
\* has expired, one expires at StartTime, one a tick later and one two ticks
\* later.
FilledCache(shift) ==
  [ walletAddress \in { LibAddress(k) : k \in 1..CacheCeiling } |->
      LET k == CHOOSE j \in 1..CacheCeiling : LibAddress(j) = walletAddress
          cacheExpiry == StartTime - 150 + 150 * ((k + shift) % 4)
      IN  ReputationDataFor(walletAddress, AllFail, cacheExpiry - CacheLifetime) ]

SweepAddresses ==
  { LibAddress(1), LibAddress(2), LibAddress(CacheCeiling + 1), LibAddress(CacheCeiling + 2) }

InitSweep ==
  /\ now = StartTime
  /\ reputationCache \in { FilledCache(shift) : shift \in 0..3 } \cup {EmptyMap}
  /\ calls = [id \in {1} |-> NoLibCall]
  /\ batch = NoBatch
  /\ fnArg = <<>>
  /\ fnOut = <<>>
  /\ request = NoRequest
  /\ currentConfig = defaultConfig
  /\ configLoaded = TRUE
  /\ hook = NoHook
  /\ captcha = NoCaptcha

NextSweep ==
  \/ \E walletAddress \in SweepAddresses : ReputationStart(walletAddress)
  \/ \E resp \in {AllFail, AllOk} : ReputationSettle(resp)
  \/ Tick

SpecSweep == InitSweep /\ [][NextSweep]_vars

(***************************************************************************)
(* The configuration on its own.  The module calls initializeConfig() when *)
(* it is loaded, so the initial state holds the loaded default.            *)
(***************************************************************************)
InitConfig ==
  /\ now = StartTime
  /\ reputationCache = EmptyMap
  /\ calls = [id \in {} |-> NoCall]
  /\ batch = NoBatch
  /\ fnArg = <<>>
  /\ fnOut = <<>>
  /\ request = NoRequest
  /\ currentConfig = defaultConfig
  /\ configLoaded = TRUE
  /\ hook = NoHook
  /\ captcha = NoCaptcha

NextConfig ==
  \/ \E overrides \in ConfigObjects : initializeConfig(overrides)
  \/ \E updates \in ConfigObjects : updateConfig(updates)

SpecConfig == InitConfig /\ [][NextConfig]_vars

(***************************************************************************)
(* calculateWalletAge and countAssets on their own, applied to drawn       *)
(* lists while the clock runs.                                             *)
(***************************************************************************)
\* Two of the records share the earliest timeStamp; one is a day old at the
\* first tick and one two days old at the first tick.
AgeTxChoices ==
  LiveTxChoices \cup
  { Tx("0xa", "0xother", 1, StartTime - 200 * Day, ""),
    Tx("0xa", "0xother", 1, StartTime - 2 * Day + 150, "") }

InitAge ==
  /\ now = StartTime
  /\ reputationCache = EmptyMap
  /\ calls = [id \in {} |-> NoCall]
  /\ batch = NoBatch
  /\ fnArg \in SeqsUpTo(AgeTxChoices, MaxRecords)
  /\ fnOut = <<>>
  /\ request = NoRequest
  /\ currentConfig = defaultConfig
  /\ configLoaded = TRUE
  /\ hook = NoHook
  /\ captcha = NoCaptcha

WalletAgeCall ==
  /\ Len(fnOut) < 2
  /\ fnOut' = Append(fnOut, [ at |-> now, out |-> calculateWalletAge(fnArg, now) ])
  /\ UNCHANGED <<now, reputationCache, calls, batch, fnArg, request, currentConfig, configLoaded, hook, captcha>>

NextAge == WalletAgeCall \/ Tick

SpecAge == InitAge /\ [][NextAge]_vars

\* Transfer records: two spellings of one token contract, two more token
\* contracts, one contract that issues both a token and an NFT, and a record
\* without a contract address.
TransferChoices ==
  { Tx("0xother", "0xa", 0, StartTime - 50 * Day, "0xToken1"),
    Tx("0xother", "0xa", 0, StartTime - 40 * Day, "0xtoken1"),
    Tx("0xa", "0xother", 0, StartTime - 30 * Day, "0xtoken2"),
    Tx("0xother", "0xa", 0, StartTime - 20 * Day, "0xnft1"),
    Tx("0xother", "0xa", 0, StartTime - 10 * Day, "") }

InitAssets ==
  /\ now = StartTime
  /\ reputationCache = EmptyMap
  /\ calls = [id \in {} |-> NoCall]
  /\ batch = NoBatch
  /\ fnArg \in [ tokenTransfers : SeqsUpTo(TransferChoices, MaxRecords),
                 nftTransfers : SeqsUpTo(TransferChoices, MaxTxs) ]
  /\ fnOut = <<>>
  /\ request = NoRequest
  /\ currentConfig = defaultConfig
  /\ configLoaded = TRUE
  /\ hook = NoHook
  /\ captcha = NoCaptcha

CountAssetsCall ==
  /\ Len(fnOut) < 1
  /\ fnOut' = Append(fnOut, countAssets(fnArg.tokenTransfers, fnArg.nftTransfers))
  /\ UNCHANGED <<now, reputationCache, calls, batch, fnArg, request, currentConfig, configLoaded, hook, captcha>>

NextAssets == CountAssetsCall

SpecAssets == InitAssets /\ [][NextAssets]_vars

(***************************************************************************)
(* The useWalletReputation hook with its default options (autoRefresh and  *)
(* autoFetch on).  In SpecHook the variable reputationCache is the Map of  *)
(* lib/reputation.ts, which the hook's fetchWalletReputation reads and     *)
(* writes.  A frame of hook.fetches is one fetchReputation invocation that *)
(* went past its early returns: pc is "calc" while the library computes,   *)
(* "resolved" when the library answered from its Map and the continuation  *)
(* has not run yet, "done" afterwards.  hit, applied and superseded are    *)
(* history: whether the library answered from its Map, whether the         *)
(* continuation updated the hook's state, and whether a fetch for another  *)
(* address had been requested by then.                                     *)
(***************************************************************************)
MaxHookFetches == 3      \* fetchReputation invocations that reach the library
MinRefreshDelay == 60    \* Math.max(timeUntilExpiry, 60000), in seconds

\* reputationCache.get(walletAddress) && Date.now() < cached.cacheExpiry
LibCached(cache, walletAddress, t) ==
  IF walletAddress \in DOMAIN cache /\ t < cache[walletAddress].cacheExpiry
  THEN <<cache[walletAddress]>> ELSE <<>>

HookFrame(address, force, cached, t) ==
  [ address |-> address, force |-> force,
    pc |-> IF cached = <<>> THEN "calc" ELSE "resolved",
    hit |-> cached # <<>>, data |-> cached, startedAt |-> t,
    applied |-> FALSE, superseded |-> FALSE ]

\* fetchReputation up to its await: the two early returns, the three state
\* updates and the synchronous head of the library call.
FetchHead(h, address, force, cache, t) ==
  IF address = EmptyAddress
  THEN [ h EXCEPT !.error = <<"No wallet address provided">> ]
  ELSE IF /\ ~force
          /\ h.reputationData # <<>>
          /\ h.reputationData[1].walletAddress = address
          /\ t < h.reputationData[1].cacheExpiry
  THEN [ h EXCEPT !.lastRequested = <<address>> ]
  ELSE [ h EXCEPT !.isLoading = TRUE, !.error = <<>>,
                  !.currentWalletRef = <<address>>,
                  !.lastRequested = <<address>>,
                  !.fetches = Append(@, HookFrame(address, force,
                                                  LibCached(cache, address, t), t)) ]

ClearedHook(h) ==
  [ h EXCEPT !.reputationData = <<>>, !.error = <<>>, !.isLoading = FALSE,
             !.currentWalletRef = <<>>, !.refreshTimer = <<>> ]

\* The auto-fetch effect.  Its dependencies are the walletAddress option and
\* the callbacks; fetchReputation is a new function whenever reputationData
\* changed, so the effect runs again after every such render.
AutoFetchEffect(h, cache, t) ==
  IF h.walletAddress # <<>> /\ <<h.walletAddress>> # h.currentWalletRef
  THEN FetchHead(h, h.walletAddress, FALSE, cache, t)
  ELSE IF h.walletAddress = <<>> /\ h.currentWalletRef # <<>>
  THEN ClearedHook(h)
  ELSE h

\* The render after a handler, followed by the effect when a dependency
\* changed.
Rendered(changed, h, cache, t) == IF changed THEN AutoFetchEffect(h, cache, t) ELSE h

\* The rest of fetchReputation after the await: try and finally.
Continued(h, k, data, t) ==
  IF h.currentWalletRef = <<h.fetches[k].address>>
  THEN [ h EXCEPT !.reputationData = <<data>>,
                  !.refreshTimer = << [ address |-> h.fetches[k].address,
                                        at |-> t + Max(data.cacheExpiry - t,
                                                       MinRefreshDelay) ] >>,
                  !.isLoading = FALSE,
                  !.fetches[k].pc = "done",
                  !.fetches[k].data = <<data>>,
                  !.fetches[k].applied = TRUE,
                  !.fetches[k].superseded = (h.lastRequested # <<h.fetches[k].address>>) ]
  ELSE [ h EXCEPT !.fetches[k].pc = "done",
                  !.fetches[k].data = <<data>>,
                  !.fetches[k].superseded = (h.lastRequested # <<h.fetches[k].address>>) ]

HookUnchanged ==
  UNCHANGED <<now, calls, batch, fnArg, fnOut, request, currentConfig, configLoaded, captcha>>

\* fetchReputation(address, force) called by the component.
HookFetchReputation(address, force) ==
  /\ Len(hook.fetches) < MaxHookFetches
  /\ hook' = FetchHead(hook, address, force, reputationCache, now)
  /\ UNCHANGED reputationCache
  /\ HookUnchanged

\* refreshReputation()
HookRefreshReputation ==
  /\ Len(hook.fetches) < MaxHookFetches
  /\ hook.reputationData # <<>>
  /\ hook.reputationData[1].walletAddress # EmptyAddress
  /\ hook' = FetchHead(hook, hook.reputationData[1].walletAddress, TRUE, reputationCache, now)
  /\ UNCHANGED reputationCache
  /\ HookUnchanged

\* clearReputation() called by the component.
HookClearReputation ==
  /\ hook' = Rendered(hook.reputationData # <<>>, ClearedHook(hook), reputationCache, now)
  /\ Len(hook'.fetches) <= MaxHookFetches
  /\ UNCHANGED reputationCache
  /\ HookUnchanged

\* The component is rendered with another walletAddress option.
HookSetWalletAddress(address) ==
  /\ address # hook.walletAddress
  /\ hook' = AutoFetchEffect([hook EXCEPT !.walletAddress = address], reputationCache, now)
  /\ Len(hook'.fetches) <= MaxHookFetches
  /\ UNCHANGED reputationCache
  /\ HookUnchanged

\* The library's computation for frame k settles: the result is stored in
\* the Map and returned, and the continuation of fetchReputation runs.
SettledWith(k, reputationData) ==
  /\ reputationCache' =
       SetAndClean(MapSet(reputationCache, reputationData.walletAddress, reputationData), now)
  /\ hook' = Rendered(TRUE, Continued(hook, k, reputationData, now), reputationCache', now)

HookFetchSettle(k, resp) ==
  /\ k \in 1..Len(hook.fetches)
  /\ hook.fetches[k].pc = "calc"
  /\ SettledWith(k, ReputationDataFor(hook.fetches[k].address, resp, now))
  /\ Len(hook'.fetches) <= MaxHookFetches
  /\ HookUnchanged

\* The continuation of a fetch that the library answered from its Map.  The
\* object is the one in the Map: the state changes only when it is not the
\* one the hook already holds.
HookFetchResume(k) ==
  /\ k \in 1..Len(hook.fetches)
  /\ hook.fetches[k].pc = "resolved"
  /\ hook' = Rendered(/\ hook.currentWalletRef = <<hook.fetches[k].address>>
                      /\ hook.reputationData # hook.fetches[k].data,
                      Continued(hook, k, hook.fetches[k].data[1], now),
                      reputationCache, now)
  /\ Len(hook'.fetches) <= MaxHookFetches
  /\ UNCHANGED reputationCache
  /\ HookUnchanged

\* The auto-refresh timer fires.
HookTimerFire ==
  /\ hook.refreshTimer # <<>>
  /\ now >= hook.refreshTimer[1].at
  /\ Len(hook.fetches) < MaxHookFetches
  /\ hook' = IF hook.currentWalletRef = <<hook.refreshTimer[1].address>>
             THEN FetchHead([hook EXCEPT !.refreshTimer = <<>>],
                            hook.refreshTimer[1].address, TRUE, reputationCache, now)
             ELSE [hook EXCEPT !.refreshTimer = <<>>]
  /\ UNCHANGED reputationCache
  /\ HookUnchanged

\* Time passes between tasks: a continuation that is ready runs first.
HookTick ==
  /\ \A k \in 1..Len(hook.fetches) : hook.fetches[k].pc # "resolved"
  /\ Tick

InitHook ==
  /\ now = StartTime
  /\ reputationCache = EmptyMap
  /\ calls = [id \in {} |-> NoCall]
  /\ batch = NoBatch
  /\ fnArg = <<>>
  /\ fnOut = <<>>
  /\ request = NoRequest
  /\ currentConfig = defaultConfig
  /\ configLoaded = TRUE
  /\ hook = NoHook
  /\ captcha = NoCaptcha

NextHook ==
  \/ \E address \in {EmptyAddress, AddressA, AddressB}, force \in BOOLEAN :
       HookFetchReputation(address, force)
  \/ HookRefreshReputation
  \/ HookClearReputation
  \/ \E address \in {EmptyAddress, AddressA, AddressB} : HookSetWalletAddress(address)
  \/ \E k \in 1..MaxHookFetches, resp \in {AllFail, AllOk} : HookFetchSettle(k, resp)
  \/ \E k \in 1..MaxHookFetches : HookFetchResume(k)
  \/ HookTimerFire
  \/ HookTick

SpecHook == InitHook /\ [][NextHook]_vars

(***************************************************************************)
(* The useCaptchaLogic hook: the modal, the countdown, the puzzle, the     *)
(* wallet signature, the step navigation and the two callbacks.  Timeouts  *)
(* that no ref holds (the 3 s timeout of nextStep, the timeouts that call  *)
(* nextStep) are never cleared: they stay pending when the modal closes.   *)
(***************************************************************************)
MaxSessions == 1        \* openModal calls of one behaviour
MaxSuccessTimers == 2   \* pending 3 s timeouts of nextStep
MaxNextCalls == 1       \* pending timeouts that call nextStep
MaxAttempts == 3        \* verificationState.maxAttempts

Closure(c) ==
  [ currentStep |-> c.currentStep, showSuccess |-> c.showSuccess,
    walletSigned |-> c.walletSigned, isTransitioning |-> c.isTransitioning ]

\* closeModal(): the modal closes, the interval and the alignment timeout are
\* cleared, onFailure is called.
Closed(c) ==
  [ c EXCEPT !.isOpen = FALSE, !.alignmentTimer = <<>>,
             !.onFailureCalls = c.onFailureCalls + 1 ]

Ended(c, how) == [ c EXCEPT !.outcome = IF c.outcome = "none" THEN how ELSE c.outcome ]

\* animateToStep(step) as seen by a closure.
AnimatedTo(c, closure, step) ==
  IF closure.isTransitioning THEN c
  ELSE [ c EXCEPT !.isTransitioning = TRUE, !.stepTimers = c.stepTimers \cup {step} ]

Scheduled(c) == [ c EXCEPT !.successTimers = c.successTimers + 1 ]

\* nextStep() as seen by a closure.
NextStepIn(c, closure) ==
  IF closure.currentStep = 1 /\ ~closure.showSuccess THEN c
  ELSE IF closure.currentStep = 2 /\ ~closure.walletSigned /\ c.mode = "advanced" THEN c
  ELSE IF c.mode = "simple" THEN Scheduled(AnimatedTo(c, closure, 2))
  ELSE IF closure.currentStep = 1 THEN AnimatedTo(c, closure, 2)
  ELSE IF closure.currentStep = 2 THEN Scheduled(AnimatedTo(c, closure, 3))
  ELSE c

CaptchaUnchanged ==
  UNCHANGED <<now, reputationCache, calls, batch, fnArg, fnOut, request, currentConfig,
              configLoaded, hook>>

openModal ==
  /\ ~captcha.isOpen
  /\ captcha.sessions < MaxSessions
  /\ captcha' = [ captcha EXCEPT !.isOpen = TRUE, !.currentStep = 1,
                    !.timeLeft = InitialTimeLeft, !.isCompleted = FALSE,
                    !.isAligned = FALSE, !.showSuccess = FALSE,
                    !.walletSigning = FALSE, !.walletSigned = FALSE,
                    !.isTransitioning = FALSE, !.attempts = 0,
                    !.sessions = captcha.sessions + 1, !.outcome = "none",
                    !.onSuccessCalls = 0, !.onFailureCalls = 0 ]
  /\ CaptchaUnchanged

\* closeModal() called by the component.
closeModal ==
  /\ captcha.isOpen
  /\ captcha' = Ended(Closed(captcha), "closed")
  /\ CaptchaUnchanged

resetModal ==
  /\ captcha.isOpen
  /\ captcha' = [ captcha EXCEPT !.currentStep = 1, !.isOpen = FALSE,
                    !.isCompleted = FALSE, !.isAligned = FALSE, !.showSuccess = FALSE,
                    !.walletSigning = FALSE, !.walletSigned = FALSE,
                    !.isTransitioning = FALSE, !.alignmentTimer = <<>> ]
  /\ CaptchaUnchanged

\* One run of the interval of the countdown effect, which exists while the
\* modal is open and the puzzle is not completed.
CountdownTick ==
  /\ captcha.isOpen /\ ~captcha.isCompleted
  /\ captcha' =
       IF captcha.timeLeft <= 1
       THEN Ended(Closed([ captcha EXCEPT !.timeLeft = 0,
                                          !.onFailureCalls = captcha.onFailureCalls + 1 ]),
                  "timeout")
       ELSE [ captcha EXCEPT !.timeLeft = captcha.timeLeft - 1 ]
  /\ CaptchaUnchanged

\* handleSliderValue with a value inside the tolerance while dragging.  The
\* component shows the puzzle on step 1 and the wallet signature on step 2.
SliderAligned ==
  /\ captcha.isOpen /\ captcha.currentStep = 1
  /\ ~captcha.isAligned
  /\ captcha' = [ captcha EXCEPT !.isAligned = TRUE,
                                 !.alignmentTimer = <<Closure(captcha)>> ]
  /\ CaptchaUnchanged

\* handleSliderValue with a value outside the tolerance while dragging.
SliderMisaligned ==
  /\ captcha.isOpen /\ captcha.currentStep = 1
  /\ captcha.isAligned
  /\ captcha' = [ captcha EXCEPT !.isAligned = FALSE, !.showSuccess = FALSE,
                                 !.alignmentTimer = <<>> ]
  /\ CaptchaUnchanged

\* The 2 s alignment timeout: the puzzle is completed and a 1 s timeout that
\* calls nextStep is set.
AlignmentTimerFire ==
  /\ captcha.alignmentTimer # <<>>
  /\ Len(captcha.nextCalls) < MaxNextCalls
  /\ captcha' = [ captcha EXCEPT !.showSuccess = TRUE, !.isCompleted = TRUE,
                                 !.alignmentTimer = <<>>,
                                 !.nextCalls = Append(captcha.nextCalls,
                                                      captcha.alignmentTimer[1]) ]
  /\ CaptchaUnchanged

\* A timeout that calls the nextStep of an earlier render.
NextCallFire ==
  /\ captcha.nextCalls # <<>>
  /\ captcha' = NextStepIn([ captcha EXCEPT !.nextCalls = Tail(captcha.nextCalls) ],
                           Head(captcha.nextCalls))
  /\ captcha'.successTimers <= MaxSuccessTimers
  /\ CaptchaUnchanged

\* nextStep() called by the component.
nextStep ==
  /\ captcha.isOpen
  /\ captcha' = NextStepIn(captcha, Closure(captcha))
  /\ captcha'.successTimers <= MaxSuccessTimers
  /\ CaptchaUnchanged

\* The 200 ms timeout of animateToStep; it sets the 50 ms one.
StepTimerFire(step) ==
  /\ step \in captcha.stepTimers
  /\ captcha' = [ captcha EXCEPT !.currentStep = step,
                                 !.stepTimers = captcha.stepTimers \ {step},
                                 !.transitionTimer = TRUE ]
  /\ CaptchaUnchanged

TransitionTimerFire ==
  /\ captcha.transitionTimer
  /\ captcha' = [ captcha EXCEPT !.isTransitioning = FALSE, !.transitionTimer = FALSE ]
  /\ CaptchaUnchanged

\* The 3 s timeout of nextStep: onSuccess(proof), then closeModal().
SuccessTimerFire ==
  /\ captcha.successTimers > 0
  /\ captcha' = Ended(Closed([ captcha EXCEPT
                                 !.successTimers = captcha.successTimers - 1,
                                 !.onSuccessCalls = captcha.onSuccessCalls + 1 ]),
                      "success")
  /\ CaptchaUnchanged

\* signWithWallet(wallet) up to its await.
signWithWallet ==
  /\ captcha.isOpen /\ captcha.currentStep = 2 /\ captcha.mode # "simple"
  /\ ~captcha.walletSigning
  /\ captcha.signClosure = <<>>
  /\ captcha' = [ captcha EXCEPT !.walletSigning = TRUE,
                                 !.signClosure = <<Closure(captcha)>>,
                                 !.signAttempts = captcha.attempts ]
  /\ CaptchaUnchanged

\* wallet.signMessage settles: with a valid signature, or with a rejection or
\* an invalid signature (the catch block).
SignSettle(valid) ==
  /\ captcha.signClosure # <<>>
  /\ valid => Len(captcha.nextCalls) < MaxNextCalls
  /\ captcha' =
       IF valid
       THEN [ captcha EXCEPT !.walletSigned = TRUE, !.walletSigning = FALSE,
                             !.signClosure = <<>>,
                             !.nextCalls = Append(captcha.nextCalls,
                                                  captcha.signClosure[1]) ]
       ELSE IF captcha.signAttempts >= MaxAttempts - 1
       THEN Ended(Closed([ captcha EXCEPT !.walletSigning = FALSE, !.signClosure = <<>>,
                                          !.attempts = captcha.attempts + 1,
                                          !.onFailureCalls = captcha.onFailureCalls + 1 ]),
                  "failed")
       ELSE [ captcha EXCEPT !.walletSigning = FALSE, !.signClosure = <<>>,
                             !.attempts = captcha.attempts + 1 ]
  /\ CaptchaUnchanged

CaptchaModes == {"simple", "advanced", "auto"}

InitCaptcha ==
  /\ now = StartTime
  /\ reputationCache = EmptyMap
  /\ calls = [id \in {} |-> NoCall]
  /\ batch = NoBatch
  /\ fnArg = <<>>
  /\ fnOut = <<>>
  /\ request = NoRequest
  /\ currentConfig = defaultConfig
  /\ configLoaded = TRUE
  /\ hook = NoHook
  /\ captcha \in { [NoCaptcha EXCEPT !.mode = mode] : mode \in CaptchaModes }

NextCaptcha ==
  \/ openModal
  \/ closeModal
  \/ resetModal
  \/ CountdownTick
  \/ SliderAligned
  \/ SliderMisaligned
  \/ AlignmentTimerFire
  \/ NextCallFire
  \/ nextStep
  \/ \E step \in 2..3 : StepTimerFire(step)
  \/ TransitionTimerFire
  \/ SuccessTimerFire
  \/ signWithWallet
  \/ \E valid \in BOOLEAN : SignSettle(valid)

SpecCaptcha == InitCaptcha /\ [][NextCaptcha]_vars

(***************************************************************************)
(* Properties.                                                             *)
(***************************************************************************)
\* C1: calculateScore(W) lies in [0,100] for every WalletData W: a sum below 0
\* gives 0 and a sum above 100 gives 100.
C1_ScoreInRange ==
  \A i \in 1..Len(fnOut) :
    LET raw == RawScore(fnArg.data, fnArg.weights) IN
    /\ fnOut[i] \in 0..100
    /\ raw < 0 => fnOut[i] = 0
    /\ raw > 100 => fnOut[i] = 100
    /\ raw \in 0..100 => fnOut[i] = raw

\* C1 witness: a WalletData whose flags take the sum below 0 has been scored.
C1_Witness ==
  /\ Len(fnOut) > 0
  /\ Len(fnArg.data.riskFlags) = MaxFlags
  /\ RawScore(fnArg.data, fnArg.weights) < 0
  /\ fnOut[1] = 0

\* C2: when every attempt of the transaction-list fetch fails for address A
\* (both runs of fetchRealWalletData of the call threw), the result of
\* fetchWalletReputation(A) has dataSource fallback and its score equals
\* generateFallbackScore(A).
C2_FallbackOnTerminalFailure ==
  \A id \in DOMAIN calls :
    LET c == calls[id] IN
    (c.pc = "done" /\ c.fetches = 2 /\ ~c.liveOk /\ ~c.dataOk) =>
      /\ c.result[1].dataSource = "fallback"
      /\ c.result[1].score = generateFallbackScore(c.walletAddress)

\* C2 witness: with an API key and the client failing throughout, the call
\* for "0xa" returns the score of the synthesized wallet data tagged etherscan.
C2_Witness ==
  /\ calls[1].pc = "done"
  /\ calls[1].walletAddress = AddressA
  /\ calls[1].apiKey = "KEY"
  /\ calls[1].fetches = 2 /\ ~calls[1].liveOk /\ ~calls[1].dataOk
  /\ calls[1].result[1].dataSource = "etherscan"
  /\ calls[1].result[1].score =
       calculateScore(generateFallbackWalletData(AddressA, StartTime), DEFAULT_WEIGHTS)
  /\ calls[1].result[1].score # generateFallbackScore(AddressA)

\* The entry a call found stored under its key when it was issued was fresh.
IssuedWithinTTL(c) ==
  c.pc # "idle" /\ c.seen # <<>> /\ c.startedAt < c.seen[1].expiry

\* The entry a call found stored under its key when it was issued was stale.
IssuedAfterExpiry(c) ==
  c.pc # "idle" /\ c.seen # <<>> /\ c.startedAt >= c.seen[1].expiry

\* C3: a call issued while now < expiry of the entry an earlier call with the
\* same data-source mode wrote returns that call's result unchanged (same
\* score, same timestamp) and runs no fetch.
C3_HitWithinTTL ==
  \A id \in DOMAIN calls :
    LET c == calls[id] IN
    IssuedWithinTTL(c) =>
      /\ c.pc = "done" /\ c.outcome = "resolved"
      /\ c.result = <<c.seen[1].result>>
      /\ c.fetches = 0
      /\ \E w \in DOMAIN calls \ {id} :
           /\ calls[w].fetches = 2
           /\ calls[w].result = c.result
           /\ CacheKeyFor(calls[w].walletAddress, Truthy(calls[w].apiKey)) =
                CacheKeyFor(c.walletAddress, Truthy(c.apiKey))

\* C3 witness: the second call, issued later but within the TTL, was served
\* the first call's result.
C3_Witness ==
  /\ calls[1].pc = "done" /\ calls[1].fetches = 2
  /\ calls[2].pc = "done" /\ calls[2].fetches = 0
  /\ calls[2].startedAt > calls[1].result[1].timestamp
  /\ calls[2].result = calls[1].result

\* C4, in every state: an entry with now >= expiry is still stored but a lookup
\* misses it and getCachedReputation returns null; a call issued over such an
\* entry was not served from it and its result is newer than the entry.
C4_StaleIsMiss ==
  /\ \A walletAddress \in {AddressA}, hasApiKey \in BOOLEAN :
       LET cacheKey == CacheKeyFor(walletAddress, hasApiKey) IN
       (cacheKey \in DOMAIN reputationCache /\ now >= reputationCache[cacheKey].expiry)
         => getCachedReputation(walletAddress, hasApiKey) = <<>>
  /\ \A id \in DOMAIN calls :
       LET c == calls[id] IN
       IssuedAfterExpiry(c) =>
         /\ c.pc = "done" => c.fetches = 2
         /\ c.pc = "done" => c.result[1].timestamp > c.seen[1].result.timestamp
         /\ c.pc = "done" => c.result # <<c.seen[1].result>>

\* C4, in every step: when a call issued over a stale entry completes, the
\* entry of its key becomes its new result with expiry now + cacheDuration.
C4_Overwrite ==
  \A id \in DOMAIN calls :
    (IssuedAfterExpiry(calls[id]) /\ calls[id].pc = "data" /\ calls'[id].pc = "done") =>
      LET c == calls'[id]
          cacheKey == CacheKeyFor(c.walletAddress, Truthy(c.apiKey))
      IN  /\ cacheKey \in DOMAIN reputationCache'
          /\ reputationCache'[cacheKey] =
               [ result |-> c.result[1], expiry |-> now + c.cacheDuration ]
          /\ reputationCache'[cacheKey].expiry > c.seen[1].expiry

\* C4: once now >= expiry a lookup is a miss though the entry is stored;
\* the next call recomputes and overwrites the entry with a new result and
\* a new expiry, and getCachedReputation returns null.
C4_ExpiredRecomputed == [](C4_StaleIsMiss) /\ [][C4_Overwrite]_vars

\* C4 witness: a call issued exactly at the expiry of the stored entry has
\* run both fetches and its result is the entry now stored.
C4_Witness ==
  \E id \in DOMAIN calls :
    LET c == calls[id]
        cacheKey == CacheKeyFor(c.walletAddress, Truthy(c.apiKey))
    IN  /\ c.pc = "done" /\ c.seen # <<>>
        /\ c.startedAt = c.seen[1].expiry
        /\ c.fetches = 2
        /\ cacheKey \in DOMAIN reputationCache
        /\ reputationCache[cacheKey].result = c.result[1]
        /\ reputationCache[cacheKey].expiry > c.seen[1].expiry

\* C5: for a non-empty address and every pattern of success and failure of
\* the four client calls, fetchWalletReputation resolves with a result whose
\* score is in [0,100]; it never rejects.
C5_AlwaysResolvesInRange ==
  \A id \in DOMAIN calls :
    LET c == calls[id] IN
    /\ c.outcome \in {"none", "resolved"}
    /\ (c.walletAddress # EmptyAddress /\ c.pc = "data") => c.score \in 0..100
    /\ (c.walletAddress # EmptyAddress /\ c.pc = "done") =>
         /\ c.outcome = "resolved"
         /\ Len(c.result) = 1
         /\ c.result[1].score \in 0..100

\* C5 witness: a call for a non-empty address has resolved after the
\* transaction list came back empty and every other client call failed.
C5_Witness ==
  /\ calls[1].pc = "done" /\ calls[1].outcome = "resolved"
  /\ calls[1].walletAddress = AddressB
  /\ calls[1].fetches = 2 /\ calls[1].liveOk
  /\ calls[1].result[1].walletData.transactionCount = 0
  /\ calls[1].result[1].score = 0

\* C6: fetchWalletReputation called with the empty address is rejected at
\* once: no fetch runs, no score is computed and no cache entry is written.
C6_EmptyAddressRejected ==
  \A id \in DOMAIN calls :
    LET c == calls[id] IN
    (c.pc # "idle" /\ c.walletAddress = EmptyAddress) =>
      /\ c.pc = "done" /\ c.outcome = "rejected"
      /\ c.fetches = 0 /\ c.result = <<>>
      /\ CacheKeyFor(EmptyAddress, Truthy(c.apiKey)) \notin DOMAIN reputationCache

\* C6 witness: the call with the empty address ran both fetches, resolved
\* and left an entry under the key "_fallback".
C6_Witness ==
  /\ calls[1].pc = "done" /\ calls[1].outcome = "resolved"
  /\ calls[1].walletAddress = EmptyAddress /\ calls[1].apiKey = ""
  /\ calls[1].fetches = 2
  /\ CacheKeyFor(EmptyAddress, FALSE) \in DOMAIN reputationCache
  /\ reputationCache[CacheKeyFor(EmptyAddress, FALSE)].result = calls[1].result[1]

\* The distinct addresses of the list given to the batch.
BatchAddresses == { batch.walletAddresses[i] : i \in DOMAIN batch.walletAddresses }

\* C7: for a non-empty list, with or without duplicates, shorter or longer
\* than one group, the mapping batchFetchWalletReputation returns has exactly
\* the distinct addresses of the list as its keys.
C7_OneEntryPerAddress ==
  (batch.pc = "done" /\ Len(batch.walletAddresses) > 0) =>
    /\ DOMAIN batch.results = BatchAddresses
    /\ Cardinality(DOMAIN batch.results) = Cardinality(BatchAddresses)

\* C7 witness: a list longer than one group and holding duplicates has been
\* processed.
C7_Witness ==
  /\ batch.pc = "done"
  /\ Len(batch.walletAddresses) > batchSize
  /\ Cardinality(BatchAddresses) < Len(batch.walletAddresses)
  /\ Cardinality(BatchAddresses) > 2
  /\ DOMAIN batch.results = BatchAddresses

\* C8: when scoring fails for a subset of the addresses (the client fails for
\* them throughout), the batch resolves having processed every group, its
\* output has an entry for every input address, and each failed address
\* carries a fallback result: dataSource fallback, score of the fallback scorer.
C8_FailedMembersFallBack ==
  batch.pc = "done" =>
    /\ \A id \in DOMAIN calls : calls[id].pc = "done"
    /\ \A walletAddress \in BatchAddresses :
         /\ walletAddress \in DOMAIN batch.results
         /\ walletAddress \in batch.unavailable =>
              /\ batch.results[walletAddress].dataSource = "fallback"
              /\ batch.results[walletAddress].score = generateFallbackScore(walletAddress)

\* C8 witness: a batch of two groups with some addresses failing has resolved
\* with an entry for every address, a failed one tagged etherscan.
C8_Witness ==
  /\ batch.pc = "done"
  /\ Len(batch.walletAddresses) > batchSize
  /\ \A id \in DOMAIN calls : calls[id].pc = "done"
  /\ DOMAIN batch.results = BatchAddresses
  /\ \E a \in BatchAddresses \cap batch.unavailable :
       batch.results[a].dataSource = "etherscan"
  /\ \E a \in BatchAddresses : a \notin batch.unavailable

\* The calls of the batch that have started and not yet settled.
InFlight == { id \in DOMAIN calls : calls[id].pc \in {"calc", "data"} }

\* C9: at most batchSize single-address calls are in flight at any moment and
\* no call of a later group has started while a call of an earlier group has
\* not completed.
C9_BoundedGroups ==
  /\ Cardinality(InFlight) <= batchSize
  /\ \A id1, id2 \in DOMAIN calls :
       ((id1 - 1) \div batchSize < (id2 - 1) \div batchSize /\ calls[id2].pc # "idle")
         => calls[id1].pc = "done"

\* C9 witness: a call of the second group is in flight, the five of the
\* first group having been in flight together before.
C9_Witness ==
  /\ batch.pc = "await"
  /\ batch.i = batchSize
  /\ \E id \in InFlight : id > batchSize
  /\ \A id \in 1..batchSize : calls[id].pc = "done" /\ calls[id].fetches = 2

\* C10: generateFallbackScore(A) is an integer in [20,60] and a repeated call,
\* at any later time, returns the same value.
C10_FallbackScoreStable ==
  \A i \in 1..Len(fnOut) : fnOut[i] \in 20..60 /\ fnOut[i] = fnOut[1]

\* C10 witness: the address whose hash is -2^31 has been scored twice, the
\* clock having moved.
C10_Witness ==
  /\ fnArg = MinHashAddress
  /\ AddressHash(fnArg) = MinInt32
  /\ Len(fnOut) = 2
  /\ now > StartTime

\* C11: the walletData of every result fetchWalletReputation returns is the
\* WalletData its score was computed from: score = calculateScore(walletData,
\* weights), whatever the client calls of the invocation did.
C11_WalletDataIsScored ==
  \A id \in DOMAIN calls :
    LET c == calls[id] IN
    (c.pc = "done" /\ c.result # <<>>) =>
      c.result[1].score = calculateScore(c.result[1].walletData, c.config.weights)

\* C11 witness: the fetch of calculateWalletReputation succeeded, the fetch of
\* getWalletDataForAddress failed, and the result pairs the score of the live
\* data with the synthesized wallet data, whose score is another.
C11_Witness ==
  /\ calls[1].pc = "done" /\ calls[1].fetches = 2
  /\ calls[1].liveOk /\ ~calls[1].dataOk
  /\ calls[1].result[1].walletData =
       [ generateFallbackWalletData(calls[1].walletAddress, now)
           EXCEPT !.lastActivity = calls[1].result[1].walletData.lastActivity ]
  /\ calls[1].result[1].score #
       calculateScore(calls[1].result[1].walletData, calls[1].config.weights)

\* C12: dataSource records provenance: it is the live tag (etherscan) exactly
\* when the score was computed from data fetched from the indexing service
\* and fallback exactly when the score came from the synthesized data.
C12_DataSourceIsProvenance ==
  \A id \in DOMAIN calls :
    LET c == calls[id] IN
    (c.pc = "done" /\ c.fetches = 2) =>
      /\ c.result[1].dataSource = "etherscan" <=> c.liveOk
      /\ c.result[1].dataSource = "fallback" <=> ~c.liveOk

\* C12 witness: without an API key the fetch succeeded and the score of the
\* live data is tagged fallback.
C12_Witness ==
  /\ calls[1].pc = "done" /\ calls[1].fetches = 2
  /\ calls[1].apiKey = "" /\ calls[1].liveOk /\ calls[1].dataOk
  /\ calls[1].result[1].walletData.transactionCount = Len(SomeTransactions)
  /\ calls[1].result[1].score = calculateScore(calls[1].result[1].walletData, DEFAULT_WEIGHTS)
  /\ calls[1].result[1].dataSource = "fallback"

\* C13: the captchaMode of the result equals determineCaptchaMode(score,
\* config) for the config of the call's options: bypass iff score >=
\* bypassThreshold, simple iff easyThreshold <= score < bypassThreshold,
\* advanced otherwise.
C13_ModeFollowsConfig ==
  \A id \in DOMAIN calls :
    LET c == calls[id] IN
    (c.pc = "done" /\ c.fetches = 2) =>
      LET r == c.result[1] IN
      /\ r.captchaMode = "bypass" <=> r.score >= c.config.bypassThreshold
      /\ r.captchaMode = "simple" <=>
           (c.config.easyThreshold <= r.score /\ r.score < c.config.bypassThreshold)
      /\ r.captchaMode = "advanced" <=> r.score < c.config.easyThreshold

\* C13 witness: called with thresholds 50 and 80, a score of 47 is returned
\* with the mode simple.
C13_Witness ==
  /\ calls[1].pc = "done" /\ calls[1].fetches = 2
  /\ calls[1].config = CustomConfig
  /\ calls[1].result[1].score = 47
  /\ calls[1].result[1].score < CustomConfig.easyThreshold
  /\ calls[1].result[1].captchaMode = "simple"

\* C14: with the default thresholds, for every integer score s in [0,100]:
\* getTrustLevel(s) is high iff s >= 70, medium iff 40 <= s <= 69, low iff
\* s <= 39; determineCaptchaMode(s) is bypass iff s >= 70, simple iff
\* 40 <= s <= 69, advanced iff s <= 39.
C14_DefaultClassification ==
  \A i \in 1..Len(fnOut) :
    LET s == fnArg
        o == fnOut[i]
    IN  /\ o.trustLevel = "high" <=> s >= 70
        /\ o.trustLevel = "medium" <=> s \in 40..69
        /\ o.trustLevel = "low" <=> s <= 39
        /\ o.captchaMode = "bypass" <=> s >= 70
        /\ o.captchaMode = "simple" <=> s \in 40..69
        /\ o.captchaMode = "advanced" <=> s <= 39

\* C14 witness: the boundary score 70 has been classified high and bypass.
C14_Witness ==
  /\ fnArg = 70
  /\ fnOut = << [ trustLevel |-> "high", captchaMode |-> "bypass" ] >>

\* The brackets of the reference formula: activity, contract, age, diversity.
ReferenceSum(W) ==
  LET activity  == CASE W.transactionCount >= 101 -> 30
                     [] W.transactionCount \in 11..100 -> 15
                     [] W.transactionCount \in 1..10 -> 5
                     [] OTHER -> 0
      contract  == (IF W.contractInteractions > 0 THEN 10 ELSE 0)
                   + (IF W.knownProtocolInteractions # <<>> THEN 10 ELSE 0)
      months    == W.walletAge \div 30
      age       == CASE months >= 6 -> 20 [] months >= 1 -> 10 [] OTHER -> 5
      assets    == W.tokenCount + W.nftCount
      diversity == CASE assets > 10 -> 10 [] assets >= 3 -> 6 [] assets >= 1 -> 2
                     [] OTHER -> 0
      flags     == SumSeverity(W.riskFlags, 1)
  IN  activity + contract + age + diversity + flags

WeightedSum(W, weights) ==
  LET activity  == CASE W.transactionCount >= 101 -> weights.transactionActivity
                     [] W.transactionCount \in 11..100 -> weights.transactionActivity \div 2
                     [] W.transactionCount \in 1..10 -> 5
                     [] OTHER -> 0
      contract  == (IF W.contractInteractions > 0 THEN 10 ELSE 0)
                   + (IF W.knownProtocolInteractions # <<>> THEN 10 ELSE 0)
      months    == W.walletAge \div 30
      age       == CASE months >= 6 -> weights.walletAge
                     [] months >= 1 -> weights.walletAge \div 2
                     [] OTHER -> 5
      assets    == W.tokenCount + W.nftCount
      diversity == CASE assets > 10 -> weights.tokenDiversity
                     [] assets >= 3 -> 6 [] assets >= 1 -> 2 [] OTHER -> 0
  IN  activity + contract + age + diversity + SumSeverity(W.riskFlags, 1)

\* C16: calculateScore(W, weights) awards the budgets of the weights it is
\* given, not only the defaults: weights.transactionActivity for >= 101
\* transactions and half of it for 11..100, weights.walletAge for >= 6 months
\* and half of it for >= 1 month, weights.tokenDiversity for > 10 assets.
C16_WeightsAreApplied ==
  \A i \in 1..Len(fnOut) :
    LET sum == WeightedSum(fnArg.data, fnArg.weights) IN
    fnOut[i] = (IF sum < 0 THEN 0 ELSE IF sum > 100 THEN 100 ELSE sum)

\* C16 witness: with every weight doubled, 150 transactions and nothing else
\* have scored 35 (30 + the age credit 5), not 65.
C16_Witness ==
  /\ fnArg.weights = DoubledWeights
  /\ fnArg.weights.transactionActivity = 60
  /\ fnArg.data.transactionCount = 150
  /\ fnArg.data.contractInteractions = 0 /\ fnArg.data.knownProtocolInteractions = <<>>
  /\ fnArg.data.walletAge = 0 /\ fnArg.data.tokenCount + fnArg.data.nftCount = 0
  /\ fnArg.data.riskFlags = <<>>
  /\ fnOut = <<35>>

\* C17: for a WalletData with unclamped sum r, the same data with one more
\* mixer flag of severity -30 scores max(0, min(100, r - 30)); the score is
\* exactly 30 lower whenever r and r - 30 both lie in [0,100].
C17_MixerFlagCosts30 ==
  (/\ Len(fnOut) = 2
   /\ fnOut[2].data = [fnOut[1].data EXCEPT !.riskFlags = Append(@, MixerFlag)]) =>
    LET r == ReferenceSum(fnOut[1].data) IN
    /\ fnOut[2].score = (IF r - 30 < 0 THEN 0 ELSE IF r - 30 > 100 THEN 100 ELSE r - 30)
    /\ (r \in 0..100 /\ r - 30 \in 0..100) => fnOut[2].score = fnOut[1].score - 30

\* C17 witness: with weights.riskFlags = -60, a wallet already carrying a
\* mixer flag scored 40 and, with a second mixer flag, 10.
C17_Witness ==
  /\ Len(fnOut) = 2
  /\ fnArg.weights.riskFlags = -60
  /\ fnOut[1].data.riskFlags = <<MixerFlag>>
  /\ fnOut[2].data = [fnOut[1].data EXCEPT !.riskFlags = <<MixerFlag, MixerFlag>>]
  /\ fnOut[1].score = 40
  /\ fnOut[2].score = 10

\* C18: with every other field fixed, calculateScore does not decrease when
\* transactionCount grows: from the 0..10 bracket into 11..100, from 11..100
\* into 101 and above.
C18_MonotoneInTransactions ==
  (/\ Len(fnOut) = 2
   /\ fnOut[2].data =
        [fnOut[1].data EXCEPT !.transactionCount = fnOut[2].data.transactionCount]) =>
    /\ fnOut[1].data.transactionCount <= fnOut[2].data.transactionCount
         => fnOut[1].score <= fnOut[2].score
    /\ fnOut[1].data.transactionCount >= fnOut[2].data.transactionCount
         => fnOut[1].score >= fnOut[2].score

\* C18 witness: 100 transactions scored 45 and, all else equal, 101 scored 60.
C18_Witness ==
  /\ Len(fnOut) = 2
  /\ fnOut[1].data.transactionCount = 100
  /\ fnOut[2].data = [fnOut[1].data EXCEPT !.transactionCount = 101]
  /\ fnOut[1].score = 45
  /\ fnOut[2].score = 60

\* The attempts of the request so far, and whether attempt k failed.
Attempts == Len(request.responses)

Failed(k) ==
  LET r == request.responses[k] IN
  \/ r.fetch \in {"aborted", "failed"}
  \/ r.fetch = "resolved" /\ ~r.ok
  \/ r.fetch = "resolved" /\ r.ok /\ r.status = "0" /\ r.message # "No transactions found"

\* C19, in every state: no more attempts than this.retries; only the last
\* attempt can have succeeded and then its data is returned at once; a delay
\* of 2^k seconds follows the failed attempt k (from 0) unless it was the
\* last one allowed; after this.retries failures the last error is thrown.
C19_AttemptsAndDelays ==
  /\ Attempts <= (IF request.retries > 0 THEN request.retries ELSE 0)
  /\ \A k \in 1..(Attempts - 1) : Failed(k)
  /\ \A k \in 1..Len(request.delays) : request.delays[k] = 2 ^ (k - 1)
  /\ request.pc = "returned" <=> (Attempts > 0 /\ ~Failed(Attempts))
  /\ request.pc = "returned" =>
       /\ request.result = <<request.responses[Attempts].result>>
       /\ Len(request.delays) = Attempts - 1
  /\ request.pc = "fetch" => (Len(request.delays) = Attempts /\ Attempts < request.retries)
  /\ request.pc = "backoff" =>
       (Failed(Attempts) /\ Len(request.delays) = Attempts - 1 /\ Attempts < request.retries)
  /\ request.pc = "threw" =>
       /\ \A k \in 1..Attempts : Failed(k)
       /\ Attempts = (IF request.retries > 0 THEN request.retries ELSE 0)
       /\ Len(request.delays) = (IF Attempts > 0 THEN Attempts - 1 ELSE 0)
       /\ request.error # <<>>
       /\ Attempts > 0 => request.error = request.lastError

\* C19: every makeRequest call ends, returned or thrown, after at most
\* this.retries attempts: the first success is returned without a further
\* attempt, a failed attempt is retried after a delay doubling per attempt,
\* and the last failed attempt raises the failure.
C19_RequestTerminates ==
  /\ []C19_AttemptsAndDelays
  /\ (request.pc # "idle") ~> (request.pc \in {"returned", "threw"})

\* C19 witness: with three attempts allowed, a timeout, a refused connection
\* and an error response were met with delays of 1 and 2 seconds and the last
\* error was thrown.
C19_Witness ==
  /\ request.pc = "threw"
  /\ request.retries = 3
  /\ request.responses = <<Aborted, Refused, NotOk>>
  /\ request.delays = <<1, 2>>
  /\ request.error = <<"Etherscan API error">>
  /\ now = StartTime + 3

\* C20: a response with status 0 and the message No transactions found ends
\* the request on that attempt with the empty list as its result: no retry
\* follows, nothing is thrown, and the address is scored from the live
\* wallet data (no transactions), not from the synthesized one.
C20_NoRecordsIsSuccess ==
  \A k \in 1..Attempts :
    request.responses[k] = NotFound =>
      /\ k = Attempts
      /\ request.pc = "returned" /\ request.error = <<>>
      /\ request.result = << <<>> >>
      /\ Len(request.delays) = k - 1
      /\ LET resp == [ AllFail EXCEPT !.tx = TransactionsOutcome ]
             live == fetchRealWalletData(AddressA, resp, now)
         IN  /\ live # <<>>
             /\ live[1].transactionCount = 0
             /\ calculateWalletReputation(AddressA, DEFAULT_CONFIG, resp, now).score
                  = calculateScore(live[1], DEFAULT_WEIGHTS)
             /\ getWalletDataForAddress(AddressA, resp, now) = live[1]

\* C20 witness: after one timeout the second attempt got No transactions
\* found and the request returned the empty list, the third attempt unused.
C20_Witness ==
  /\ request.pc = "returned"
  /\ request.retries = 3
  /\ request.responses = <<Aborted, NotFound>>
  /\ request.result = << <<>> >>
  /\ request.delays = <<1>>
  /\ TransactionsOutcome = << <<>> >>

\* C21: the live fetch succeeds exactly when getTransactions succeeds.  A
\* failure of getInternalTransactions, getTokenTransfers or getNFTTransfers,
\* in any combination, gives the WalletData that an empty list from that call
\* gives (so 0 contract interactions, 0 tokens, 0 NFTs); a failure of
\* getTransactions fails the fetch.
Emptied(outcome) == IF outcome = <<>> THEN << <<>> >> ELSE outcome

C21_OnlyTransactionsRequired ==
  \A i \in 1..Len(fnOut) :
    fnOut[i].path = "live" =>
      LET resp == fnArg.resp
          data == fnOut[i].data
      IN  /\ (data # <<>>) <=> (resp.tx # <<>>)
          /\ data # <<>> =>
               /\ resp.internal = <<>> => data[1].contractInteractions = 0
               /\ resp.token = <<>> => data[1].tokenCount = 0
               /\ resp.nft = <<>> => data[1].nftCount = 0
               /\ data = fetchRealWalletData(
                           fnArg.address,
                           [ tx |-> resp.tx, internal |-> Emptied(resp.internal),
                             token |-> Emptied(resp.token), nft |-> Emptied(resp.nft) ],
                           fnOut[i].at)

\* A fetch of two transactions that returned although all three enrichment
\* calls failed.
C21_Witness ==
  /\ Len(fnOut) = 1
  /\ fnOut[1].path = "live"
  /\ fnOut[1].data # <<>>
  /\ fnArg.resp.internal = <<>> /\ fnArg.resp.token = <<>> /\ fnArg.resp.nft = <<>>
  /\ Len(fnArg.resp.tx[1]) = 2

\* C22: the cache key separates the data-source modes.  No two distinct
\* (address, mode) pairs have the same key, even for addresses that end in a
\* mode suffix; a lookup in one mode returns only a result written in that
\* mode, and a call served from the cache was served the result of a call of
\* its own mode.
KeyAddresses ==
  { EmptyAddress, AddressA, AddressB,
    AddressA \o <<95, 114, 101, 97, 108>>,                       \* "0xa_real"
    AddressA \o <<95, 102, 97, 108, 108, 98, 97, 99, 107>> }     \* "0xa_fallback"

C22_ModesHaveSeparateKeys ==
  /\ \A a1 \in KeyAddresses, a2 \in KeyAddresses, h1 \in BOOLEAN, h2 \in BOOLEAN :
       CacheKeyFor(a1, h1) = CacheKeyFor(a2, h2) => (a1 = a2 /\ h1 = h2)
  /\ \A hasApiKey \in BOOLEAN :
       LET cached == getCachedReputation(AddressA, hasApiKey) IN
       cached # <<>> =>
         \E w \in DOMAIN calls :
           /\ calls[w].result = cached
           /\ calls[w].fetches = 2
           /\ Truthy(calls[w].apiKey) = hasApiKey
  /\ \A id \in DOMAIN calls :
       LET c == calls[id] IN
       (c.pc = "done" /\ c.fetches = 0) =>
         \E w \in DOMAIN calls \ {id} :
           /\ calls[w].fetches = 2
           /\ calls[w].result = c.result
           /\ Truthy(calls[w].apiKey) = Truthy(c.apiKey)

\* C22 witness: with the live result of call 1 stored and fresh, call 2 asked
\* for the same address without an API key, found nothing under its key and
\* computed its own result; both entries are now stored side by side.
C22_Witness ==
  /\ calls[1].pc = "done" /\ calls[1].apiKey = "KEY" /\ calls[1].fetches = 2
  /\ calls[2].pc = "done" /\ calls[2].apiKey = "" /\ calls[2].fetches = 2
  /\ calls[2].seen = <<>>
  /\ calls[2].startedAt >= calls[1].result[1].timestamp
  /\ calls[2].startedAt < calls[1].result[1].timestamp + calls[1].cacheDuration
  /\ getCachedReputation(AddressA, TRUE) = calls[1].result
  /\ getCachedReputation(AddressA, FALSE) = calls[2].result

\* C23: a clearReputationCache step leaves the cache without entries:
\* getCachedReputation returns null for every address in both modes, and a
\* fetchWalletReputation call issued in the state it leaves goes on to a fresh
\* computation instead of returning an earlier result.
C23_ClearLeavesNothing ==
  [][ clearReputationCache =>
        /\ reputationCache' = EmptyMap
        /\ \A walletAddress \in KeyAddresses, hasApiKey \in BOOLEAN :
             getCachedReputation(walletAddress, hasApiKey)' = <<>>
        /\ \A walletAddress \in {AddressA, AddressB}, apiKey \in {"", "KEY"} :
             StartedCall(walletAddress, apiKey, DEFAULT_CONFIG, 300)'.pc = "calc" ]_vars

\* C23 witness: call 1 stored a result, the cache was cleared, and call 2, for
\* the same key and within the duration of that result, found no entry and is
\* computing.
C23_Witness ==
  /\ reputationCache = EmptyMap
  /\ calls[1].pc = "done" /\ calls[1].fetches = 2
  /\ calls[2].pc = "calc" /\ calls[2].seen = <<>>
  /\ calls[2].apiKey = calls[1].apiKey
  /\ calls[2].startedAt >= calls[1].result[1].timestamp
  /\ calls[2].startedAt < calls[1].result[1].timestamp + calls[1].cacheDuration

\* C24: whenever the set of a result leaves the Map above its ceiling, the
\* clean-up that follows removes every entry a lookup would miss
\* (now >= cacheExpiry) and no entry that is still fresh.  Stated for the
\* state in which the call has just returned.
JustSwept ==
  /\ calls[1].pc = "done" /\ ~calls[1].hit
  /\ calls[1].settledAt = now
  /\ calls[1].putSize > CacheCeiling

C24_SweepRemovesAllStale ==
  JustSwept =>
    /\ \A key \in DOMAIN reputationCache : now < reputationCache[key].cacheExpiry
    /\ calls[1].freshKeys \subseteq DOMAIN reputationCache

\* What the clean-up does: every entry with now > cacheExpiry is gone, no
\* entry with now <= cacheExpiry is, so an entry that expires at this very
\* instant stays although a lookup misses it.
C24_SweepRemovesPastExpiry ==
  JustSwept =>
    /\ \A key \in DOMAIN reputationCache : now <= reputationCache[key].cacheExpiry
    /\ calls[1].freshKeys \subseteq DOMAIN reputationCache
    /\ Cardinality(DOMAIN reputationCache) < calls[1].putSize

\* C24 witness: the 101st address was set, the clean-up ran and removed
\* entries, and an entry with now = cacheExpiry is still in the Map.
C24_Witness ==
  /\ JustSwept
  /\ Cardinality(DOMAIN reputationCache) < calls[1].putSize
  /\ \E key \in DOMAIN reputationCache : now = reputationCache[key].cacheExpiry

\* C25 as stated: every WalletData of the live path or of the fallback path
\* has all counts >= 0 and walletAge = 0 exactly when transactionCount = 0.
C25_AgeZeroIffNoTransactions ==
  \A i \in 1..Len(fnOut) :
    fnOut[i].data # <<>> =>
      LET data == fnOut[i].data[1] IN
      /\ data.transactionCount >= 0 /\ data.contractInteractions >= 0
      /\ data.tokenCount >= 0 /\ data.nftCount >= 0 /\ data.walletAge >= 0
      /\ (data.walletAge = 0) <=> (data.transactionCount = 0)

\* The earliest timeStamp of a non-empty list.
EarliestTimeStamp(transactions) ==
  CHOOSE ts \in { transactions[j].timeStamp : j \in 1..Len(transactions) } :
    \A j \in 1..Len(transactions) : ts <= transactions[j].timeStamp

\* C25, amended: all counts are >= 0 and walletAge is 0 whenever
\* transactionCount is 0.  On the live path walletAge is the number of whole
\* days from the earliest transaction to the evaluation time, so it is also 0
\* for a wallet whose earliest transaction is less than a day old; on the
\* fallback path transactionCount >= 1 and walletAge >= 30.
C25_CountsAndWholeDays ==
  \A i \in 1..Len(fnOut) :
    fnOut[i].data # <<>> =>
      LET data == fnOut[i].data[1] IN
      /\ data.transactionCount >= 0 /\ data.contractInteractions >= 0
      /\ data.tokenCount >= 0 /\ data.nftCount >= 0 /\ data.walletAge >= 0
      /\ data.transactionCount = 0 => data.walletAge = 0
      /\ fnOut[i].path = "live" =>
           LET transactions == fnArg.resp.tx[1] IN
           /\ data.transactionCount = Len(transactions)
           /\ (data.walletAge = 0) <=>
                \/ Len(transactions) = 0
                \/ fnOut[i].at - EarliestTimeStamp(transactions) < Day
           /\ Len(transactions) > 0 =>
                /\ data.walletAge * Day <= fnOut[i].at - EarliestTimeStamp(transactions)
                /\ fnOut[i].at - EarliestTimeStamp(transactions) < (data.walletAge + 1) * Day
      /\ fnOut[i].path = "fallback" =>
           data.transactionCount >= 1 /\ data.walletAge >= 30

\* C25 witness: the live data of a wallet with two transactions, none of them
\* a day old, has walletAge 0; the fallback data of the address follows it.
C25_Witness ==
  /\ Len(fnOut) = 2
  /\ fnOut[1].path = "live" /\ fnOut[1].data # <<>>
  /\ fnOut[1].data[1].transactionCount = 2 /\ fnOut[1].data[1].walletAge = 0
  /\ fnOut[2].path = "fallback"

\* C26: the synthetic WalletData of an address is the same on every call:
\* every field, lastActivity included, is independent of the time of the call.
C26_SyntheticDataStable ==
  \A i \in 1..Len(fnOut), j \in 1..Len(fnOut) :
    (fnOut[i].path = "fallback" /\ fnOut[j].path = "fallback") =>
      fnOut[i].data = fnOut[j].data

\* C26 witness: generateFallbackWalletData ran twice for one address, a tick
\* apart; the two results agree in every field derived from the hash and
\* differ in lastActivity.
C26_Witness ==
  /\ Len(fnOut) = 2
  /\ fnOut[1].path = "fallback" /\ fnOut[2].path = "fallback"
  /\ fnOut[1].at < fnOut[2].at
  /\ [fnOut[1].data[1] EXCEPT !.lastActivity = 0] = [fnOut[2].data[1] EXCEPT !.lastActivity = 0]
  /\ fnOut[1].data[1].lastActivity # fnOut[2].data[1].lastActivity

\* The counterparty address of a transaction record is its destination, the
\* to field, compared in lower case; the denylist is the four mixer pools.
Counterparty(tx) == ToLowerCase(tx.to)

MixerContracts ==
  { "0x12d66f87a04a9e220743712ce6d9bb1b5616b8fc",
    "0x47ce0c6ed5b0ce3d3a51fdb1c52dc66a7c3c2936",
    "0x910cbd523d972eb0a6f4cae4618ad62622b39dbf",
    "0xa160cdab225685da1d56aa342ad8841c3b53f291" }

FlagsOfType(flags, types) == SelectSeq(flags, LAMBDA f : f.type \in types)

RecentLarge(resp, t) ==
  SelectSeq(resp.tx[1] \o (IF resp.internal = <<>> THEN <<>> ELSE resp.internal[1]),
            LAMBDA tx : t - tx.timeStamp < Day /\ tx.value > 10)

\* C28: the large-transfer flag is tagged by direction relative to the subject
\* address: large_inflow when the subject is the destination of the recent
\* large transactions and another address their origin, large_outflow when the
\* subject is their origin.
C28_DirectionRelativeToSubject ==
  \A i \in 1..Len(fnOut) :
    (fnOut[i].path = "live" /\ fnOut[i].data # <<>> /\ fnArg.address \in DOMAIN AddressString) =>
      LET subject == AddressString[fnArg.address]
          recent  == RecentLarge(fnArg.resp, fnOut[i].at)
          flags   == FlagsOfType(fnOut[i].data[1].riskFlags, {"large_inflow", "large_outflow"})
          inflows == \A j \in 1..Len(recent) :
                       ToLowerCase(recent[j].to) = subject /\ ToLowerCase(recent[j].from) # subject
          outflows == \A j \in 1..Len(recent) :
                        ToLowerCase(recent[j].from) = subject /\ ToLowerCase(recent[j].to) # subject
      IN  Len(recent) > 0 =>
            /\ Len(flags) = 1
            /\ inflows => flags[1].type = "large_inflow"
            /\ outflows => flags[1].type = "large_outflow"

\* C28 witness: the only transaction of "0xa" is a fresh transfer of 11 ETH
\* from another address to it, and the flag says large_outflow.
C28_Witness ==
  /\ Len(fnOut) = 1 /\ fnOut[1].path = "live" /\ fnOut[1].data # <<>>
  /\ fnArg.address = AddressA
  /\ fnArg.resp.tx = << << Tx("0xother", "0xA", 11, StartTime - 60, "") >> >>
  /\ fnOut[1].data[1].riskFlags =
       << [ type |-> "large_outflow", severity |-> -10,
            description |-> [ text |-> "large transaction(s) in last 24h", n |-> 1 ] ] >>

\* The first '_'-separated part of a protocol tag names the protocol.
KnownProtocolTags ==
  { KNOWN_PROTOCOL_ADDRESSES[addr][1] : addr \in DOMAIN KNOWN_PROTOCOL_ADDRESSES \ MixerContracts }

C30_ThresholdsOrdered ==
  LET thresholds == getConfig.reputation.thresholds IN
  /\ thresholds.bypass > thresholds.simple
  /\ thresholds.simple > thresholds.advanced
  /\ thresholds.advanced >= 0

\* C30 witness: updateConfig({reputation: {thresholds: {bypass: 0}}}) on the
\* default configuration.
C30_Witness ==
  /\ configLoaded
  /\ getConfig.reputation.thresholds = [ bypass |-> 0, simple |-> 40, advanced |-> 0 ]

\* The orderings of a list.
Orderings(n) == { f \in [1..n -> 1..n] : \A i \in 1..n, j \in 1..n : f[i] = f[j] => i = j }

Reordered(list, f) == [i \in 1..Len(list) |-> list[f[i]]]

\* C31: calculateWalletAge returns 0 for an empty list and otherwise the
\* whole number of days from the earliest timeStamp to the evaluation time;
\* it gives the same result for every ordering of the same list.
C31_AgeFromEarliest ==
  \A i \in 1..Len(fnOut) :
    LET t == fnOut[i].at IN
    /\ Len(fnArg) = 0 => fnOut[i].out = 0
    /\ Len(fnArg) > 0 =>
         /\ fnOut[i].out * Day <= t - EarliestTimeStamp(fnArg)
         /\ t - EarliestTimeStamp(fnArg) < (fnOut[i].out + 1) * Day
    /\ \A f \in Orderings(Len(fnArg)) :
         calculateWalletAge(Reordered(fnArg, f), t) = fnOut[i].out

\* C31 witness: three records listed most recent first, evaluated at two
\* times: the age is 200, the whole days since the record listed last.
C31_Witness ==
  /\ Len(fnOut) = 2 /\ fnOut[1].at < fnOut[2].at
  /\ Len(fnArg) = 3
  /\ fnArg[3].timeStamp < fnArg[2].timeStamp /\ fnArg[2].timeStamp < fnArg[1].timeStamp
  /\ fnOut[1].out = 200 /\ fnOut[2].out = 200

\* The distinct contract addresses of a list: addresses are compared in lower
\* case and a record without a contract address names none.
DistinctContracts(transfers) ==
  { ToLowerCase(transfers[i].contractAddress) :
      i \in { j \in 1..Len(transfers) : transfers[j].contractAddress # "" } }

\* C32: countAssets returns, for each list on its own, the number of distinct
\* contract addresses in it: duplicates within a list count once, an address
\* in both lists counts in both, and an empty list gives 0.
C32_DistinctPerList ==
  \A i \in 1..Len(fnOut) :
    /\ fnOut[i].tokenCount = Cardinality(DistinctContracts(fnArg.tokenTransfers))
    /\ fnOut[i].nftCount = Cardinality(DistinctContracts(fnArg.nftTransfers))
    /\ fnArg.tokenTransfers = <<>> => fnOut[i].tokenCount = 0
    /\ fnArg.nftTransfers = <<>> => fnOut[i].nftCount = 0
    /\ fnOut[i] = [ tokenCount |-> countAssets(fnArg.tokenTransfers, <<>>).tokenCount,
                    nftCount   |-> countAssets(<<>>, fnArg.nftTransfers).nftCount ]

\* C32 witness: three token transfers, two of them of one contract, and two
\* NFT transfers of one contract that is also among the token contracts.
C32_Witness ==
  /\ Len(fnOut) = 1
  /\ Len(fnArg.tokenTransfers) = 3 /\ fnOut[1].tokenCount = 2
  /\ Len(fnArg.nftTransfers) = 2 /\ fnOut[1].nftCount = 1
  /\ DistinctContracts(fnArg.nftTransfers) \subseteq DistinctContracts(fnArg.tokenTransfers)

\* C33: a cache entry is written only when the computation of a call has
\* completed.  Every entry a reader can see is the complete result of a call
\* that has returned, stored under that call's key with that call's
\* duration; a call that is still awaiting its score or its wallet data has
\* written nothing.
C33_OnlyCompletedResults ==
  \A key \in DOMAIN reputationCache :
    LET entry == reputationCache[key] IN
    /\ DOMAIN entry = {"result", "expiry"}
    /\ DOMAIN entry.result =
         {"score", "trustLevel", "captchaMode", "walletData", "dataSource", "timestamp"}
    /\ \E w \in DOMAIN calls :
         /\ calls[w].pc = "done" /\ calls[w].fetches = 2
         /\ calls[w].result = <<entry.result>>
         /\ key = CacheKeyFor(calls[w].walletAddress, Truthy(calls[w].apiKey))
         /\ entry.expiry = entry.result.timestamp + calls[w].cacheDuration

\* C33 witness: call 1 has its score and has been awaiting its wallet data
\* for a tick; no entry is stored under its key, while the result of call 2,
\* which overtook it in the other mode, is.
C33_Witness ==
  /\ calls[1].pc = "data" /\ now > calls[1].startedAt
  /\ CacheKeyFor(calls[1].walletAddress, Truthy(calls[1].apiKey)) \notin DOMAIN reputationCache
  /\ calls[2].pc = "done" /\ calls[2].fetches = 2
  /\ CacheKeyFor(calls[2].walletAddress, Truthy(calls[2].apiKey)) \in DOMAIN reputationCache

\* C34: after clearReputationCache no lookup returns a result whose
\* computation started before the clear: whatever a lookup returns is the
\* result of a call during whose flight the cache was not cleared.
C34_NoResultFromBeforeClear ==
  \A hasApiKey \in BOOLEAN :
    LET cached == getCachedReputation(AddressA, hasApiKey) IN
    cached # <<>> =>
      \E w \in DOMAIN calls :
        /\ calls[w].pc = "done" /\ calls[w].fetches = 2
        /\ calls[w].result = cached
        /\ ~calls[w].cleared

\* C34 witness: the cache was cleared while call 1 was in flight; call 1 then
\* completed and a lookup returns its result.
C34_Witness ==
  /\ calls[1].pc = "done" /\ calls[1].cleared
  /\ calls[2].pc = "idle"
  /\ getCachedReputation(AddressA, Truthy(calls[1].apiKey)) = calls[1].result

\* C35: the ledger data client is queried for one cache key by at most one
\* computation at a time: of two calls for the same key that are in flight
\* together, at most one has run fetchRealWalletData.
C35_OneComputationPerKey ==
  \A w1, w2 \in DOMAIN calls :
    ( /\ w1 # w2
      /\ calls[w1].pc \in {"calc", "data"}
      /\ calls[w2].pc \in {"calc", "data"}
      /\ CacheKeyFor(calls[w1].walletAddress, Truthy(calls[w1].apiKey))
           = CacheKeyFor(calls[w2].walletAddress, Truthy(calls[w2].apiKey)) )
    => ~(calls[w1].fetches >= 1 /\ calls[w2].fetches >= 1)

\* C35 witness: two overlapping calls for one key, started at the same time
\* with an empty cache, have both queried the client.
C35_Witness ==
  /\ calls[1].pc = "data" /\ calls[2].pc = "data"
  /\ calls[1].walletAddress = calls[2].walletAddress
  /\ Truthy(calls[1].apiKey) = Truthy(calls[2].apiKey)
  /\ calls[1].startedAt = calls[2].startedAt
  /\ calls[1].fetches = 1 /\ calls[2].fetches = 1

\* C36: a WalletData of the live path carries a no_activity flag, of severity
\* -20 and exactly once, exactly when the fetched list of normal transactions
\* is empty; the flags analyzeRiskFlags returns for the combined list never
\* include no_activity.
C36_NoActivityIffEmpty ==
  \A i \in 1..Len(fnOut) :
    (fnOut[i].path = "live" /\ fnOut[i].data # <<>>) =>
      LET transactions == fnArg.resp.tx[1]
          found == FlagsOfType(fnOut[i].data[1].riskFlags, {"no_activity"})
      IN  /\ Len(found) = (IF Len(transactions) = 0 THEN 1 ELSE 0)
          /\ \A j \in 1..Len(found) : found[j].severity = -20
          /\ FlagsOfType(analyzeRiskFlags(transactions \o OrEmpty(fnArg.resp.internal),
                                          fnOut[i].at),
                         {"no_activity"}) = <<>>

\* C36 witness: a fetch that returned an empty list of normal transactions
\* together with internal transactions, and whose data has the flag.
C36_Witness ==
  /\ Len(fnOut) = 1
  /\ fnOut[1].path = "live"
  /\ fnArg.resp.tx = << <<>> >>
  /\ fnArg.resp.internal = <<SomeInternal>>
  /\ Len(FlagsOfType(fnOut[1].data[1].riskFlags, {"no_activity"})) = 1

\* C37: a forced fetch (fetchReputation(address, true), refreshReputation or
\* the auto-refresh timer) obtains a freshly computed reputation: the library
\* never answers it from its Map.
C37_ForcedFetchIsFresh ==
  \A k \in 1..Len(hook.fetches) :
    hook.fetches[k].force => ~hook.fetches[k].hit

\* C37 witness: a forced fetch started while the hook held unexpired data for
\* the address has been answered, and the hook holds the data it held before.
C37_Witness ==
  \E k \in 1..Len(hook.fetches) :
    /\ hook.fetches[k].force /\ hook.fetches[k].hit
    /\ hook.fetches[k].pc = "done" /\ hook.fetches[k].applied
    /\ hook.reputationData = hook.fetches[k].data
    /\ hook.reputationData[1].lastUpdated < hook.fetches[k].startedAt
    /\ hook.fetches[k].startedAt < hook.reputationData[1].cacheExpiry

\* C38: a response for one address that arrives after a fetch for another
\* address was requested never updates reputationData, error or isLoading.
C38_StaleResponseIgnored ==
  \A k \in 1..Len(hook.fetches) :
    (hook.fetches[k].pc = "done" /\ hook.fetches[k].superseded) => ~hook.fetches[k].applied

\* C38 witness: the latest request was for AddressB and was answered from the
\* data the hook held; the response of the earlier fetch for AddressA then
\* replaced that data.
C38_Witness ==
  /\ Len(hook.fetches) = 2
  /\ hook.fetches[1].address = AddressB /\ hook.fetches[1].pc = "done"
  /\ hook.fetches[2].address = AddressA /\ hook.fetches[2].pc = "done"
  /\ hook.fetches[2].superseded /\ hook.fetches[2].applied
  /\ hook.lastRequested = <<AddressB>>
  /\ hook.reputationData # <<>>
  /\ hook.reputationData[1].walletAddress = AddressA
  /\ ~hook.isLoading

\* C39: a verification session ends with exactly one callback, called once: a
\* session that ended with success has called onSuccess once and onFailure
\* never; a session that ended by the countdown or by closeModal has called
\* onFailure once and onSuccess never.
C39_ExactlyOneCallback ==
  /\ captcha.outcome = "success" =>
       (captcha.onSuccessCalls = 1 /\ captcha.onFailureCalls = 0)
  /\ captcha.outcome \in {"timeout", "closed"} =>
       (captcha.onFailureCalls = 1 /\ captcha.onSuccessCalls = 0)

\* C39 witness: a session of the simple mode that no one closed and that did
\* not time out has ended with success, with onSuccess called once and
\* onFailure called as well.
C39_Witness ==
  /\ captcha.mode = "simple"
  /\ captcha.sessions = 1
  /\ ~captcha.isOpen
  /\ captcha.outcome = "success"
  /\ captcha.timeLeft > 0
  /\ captcha.successTimers = 0
  /\ captcha.onSuccessCalls = 1
  /\ captcha.onFailureCalls = 1

====
